---- MODULE Spec2Model ----
(***************************************************************************)
(* Model of IDEALib.py: the conversion layer between a pandas DataFrame    *)
(* and an IDEA database (py2idea / idea2py), its export cleaning, its      *)
(* column-definition template, its separator configuration and its client  *)
(* singleton.                                                              *)
(*                                                                         *)
(* A cell is a tagged tuple; the tag decides the shape of the rest:        *)
(*   <<"NaT">>                    null datetime / null time / null date    *)
(*   <<"dt", d, h, m, s, us>>     Timestamp (day d of January 2024)        *)
(*   <<"time", h, m, s, us>>      datetime.time                            *)
(*   <<"date", d>>                datetime.date                            *)
(*   <<"str", chars>>             Python str, chars a sequence of 1-char   *)
(*                                strings                                  *)
(*   <<"int", n>>                 integer                                  *)
(*   <<"bool", b>>                Python bool, b TRUE or FALSE             *)
(*   <<"nan">>                    float NaN                                *)
(*   <<"float", decpt, digits>>   positive float 0.d1d2..dn * 10^decpt     *)
(*   <<"td", secs, us>>           Timedelta of secs seconds and us          *)
(*                                microseconds                             *)
(*   <<"None">>                   Python None                              *)
(* A column is [name, dtype, vals]; a DataFrame is a sequence of columns.  *)
(***************************************************************************)
EXTENDS Integers, Sequences, FiniteSets, TLC

VARIABLES
    DELIMITER,          \* IDEALib.DELIMITER
    DECIMAL_SEPARATOR,  \* IDEALib.DECIMAL_SEPARATOR
    instance,           \* _SingletonIdeaClient.__instance is not None
    sclient,            \* _SingletonIdeaClient.__client: "None" or "client"
    store,              \* the databases of the IDEA store, by resolved path
    tempDir,            \* the TemporaryDirectory of the last call and its files
    df,                 \* the DataFrame object the caller passes to py2idea
    passed,             \* that frame as it was when the call began
    cleaned,            \* what _clean_dataframe_for_export returned (or raised)
    template,           \* the field definitions appended to the IDEARDF template
    call,               \* the last idea2py / py2idea call: arguments, trace, outcome
    imported,           \* the locals of idea2py's try block
    gui,                \* RestrictedAccountsGUI: button, download thread, handlers
    pipeline            \* process_zip_file: its position, files and result

vars == <<DELIMITER, DECIMAL_SEPARATOR, instance, sclient, store, tempDir,
          df, passed, cleaned, template, call, imported, gui, pipeline>>

\* the variables of the conversion layer
libVars == <<DELIMITER, DECIMAL_SEPARATOR, instance, sclient, store, tempDir,
             df, passed, cleaned, template, call, imported>>

-----------------------------------------------------------------------------
(* Bounds of the model *)

MaxRows == 2
MaxCols == 2

-----------------------------------------------------------------------------
(* Sequences and text *)

Min(a, b) == IF a < b THEN a ELSE b

RECURSIVE SeqMax(_)
\* Python's max() over a non-empty list of integers
SeqMax(s) ==
    IF Len(s) = 1 THEN s[1]
    ELSE LET m == SeqMax(Tail(s)) IN IF s[1] > m THEN s[1] ELSE m

\* Python's `lit in text` for str
Contains(text, lit) ==
    \E i \in 1..(Len(text) - Len(lit) + 1) :
        SubSeq(text, i, i + Len(lit) - 1) = lit

DigitChar(n) == <<"0", "1", "2", "3", "4", "5", "6", "7", "8", "9">>[n + 1]

Pad2(n) == <<DigitChar((n \div 10) % 10), DigitChar(n % 10)>>

Pad6(n) ==
    <<DigitChar((n \div 100000) % 10), DigitChar((n \div 10000) % 10),
      DigitChar((n \div 1000) % 10), DigitChar((n \div 100) % 10),
      DigitChar((n \div 10) % 10), DigitChar(n % 10)>>

RECURSIVE DigitsText(_)
DigitsText(ds) ==
    IF ds = <<>> THEN <<>> ELSE <<DigitChar(ds[1])>> \o DigitsText(Tail(ds))

RECURSIVE Zeros(_)
Zeros(n) == IF n <= 0 THEN <<>> ELSE <<"0">> \o Zeros(n - 1)

NaTText == <<"N", "a", "T">>
MidnightText == <<"0", "0", ":", "0", "0", ":", "0", "0">>

\* str(datetime.time): HH:MM:SS, with .ffffff only when microsecond # 0
TimeText(h, m, s, us) ==
    Pad2(h) \o <<":">> \o Pad2(m) \o <<":">> \o Pad2(s)
        \o (IF us = 0 THEN <<>> ELSE <<".">> \o Pad6(us))

\* str(datetime.date) of day d of January 2024
DateText(d) == <<"2", "0", "2", "4", "-", "0", "1", "-">> \o Pad2(d)

\* str(float): repr of the shortest digit string, fixed notation when
\* -4 < decpt <= 16, exponent notation otherwise, "nan" for NaN
FloatText(v) ==
    IF v[1] = "nan" THEN <<"n", "a", "n">>
    ELSE LET decpt == v[2]
             ds == v[3]
             n == Len(ds)
             e == decpt - 1
         IN  IF decpt > -4 /\ decpt <= 16
             THEN IF decpt <= 0
                  THEN <<"0", ".">> \o Zeros(0 - decpt) \o DigitsText(ds)
                  ELSE IF decpt >= n
                       THEN DigitsText(ds) \o Zeros(decpt - n) \o <<".", "0">>
                       ELSE DigitsText(SubSeq(ds, 1, decpt)) \o <<".">>
                                \o DigitsText(SubSeq(ds, decpt + 1, n))
             ELSE <<DigitChar(ds[1])>>
                    \o (IF n > 1 THEN <<".">> \o DigitsText(Tail(ds)) ELSE <<>>)
                    \o <<"e">> \o (IF e < 0 THEN <<"-">> ELSE <<"+">>)
                    \o Pad2(IF e < 0 THEN 0 - e ELSE e)

RECURSIVE NatText(_)
\* str(n) of a non-negative integer
NatText(n) ==
    IF n < 10 THEN <<DigitChar(n)>> ELSE NatText(n \div 10) \o <<DigitChar(n % 10)>>

\* '{:02d}'.format(n): at least two characters, the sign counted
Fmt02d(n) ==
    IF n < 0 THEN <<"-">> \o NatText(0 - n)
    ELSE IF n < 10 THEN <<"0">> \o NatText(n) ELSE NatText(n)

\* str() of a cell
CellText(v) ==
    CASE v[1] = "NaT"   -> NaTText
      [] v[1] = "time"  -> TimeText(v[2], v[3], v[4], v[5])
      [] v[1] = "date"  -> DateText(v[2])
      [] v[1] = "nan"   -> FloatText(v)
      [] v[1] = "float" -> FloatText(v)
      [] v[1] = "str"   -> v[2]
      [] v[1] = "int"   -> IF v[2] < 0 THEN <<"-">> \o NatText(0 - v[2])
                           ELSE NatText(v[2])
      [] OTHER          -> <<"?">>

-----------------------------------------------------------------------------
(* pandas operations used by the export cleaning *)

NaT == <<"NaT">>

IsNull(v) == v[1] \in {"NaT", "nan", "None"}

\* Series.dt.date and Series.dt.time
DtDate(v) == IF v[1] = "NaT" THEN NaT ELSE <<"date", v[2]>>
DtTime(v) == IF v[1] = "NaT" THEN NaT ELSE <<"time", v[3], v[4], v[5], v[6]>>

MapSeq(Op(_), s) == [i \in 1..Len(s) |-> Op(s[i])]

\* Series.nunique(): distinct non-null values
NUnique(vals) ==
    Cardinality({vals[i] : i \in {j \in 1..Len(vals) : ~IsNull(vals[j])}})

\* str(Series.head(1)) of an object Series with default index
HeadText(name, vals) ==
    <<"0", " ", " ", " ", " ">> \o CellText(vals[1])
        \o <<"\n", "N", "a", "m", "e", ":", " ">> \o name
        \o <<",", " ", "d", "t", "y", "p", "e", ":", " ",
             "o", "b", "j", "e", "c", "t">>

\* Series.astype(str)
AsStr(v) == <<"str", CellText(v)>>

\* Series.str.replace('NaT', '', case=False) on the rendered dates (a date
\* rendering holds no letters, so only the whole-cell NaT is replaced)
ReplaceNaT(v) == IF v[2] = NaTText THEN <<"str", <<>>>> ELSE v

ColNames(cols) == {cols[i].name : i \in 1..Len(cols)}

\* DataFrame.insert(loc, name, values), loc counted from 0
InsertAt(cols, loc, c) ==
    SubSeq(cols, 1, loc) \o <<c>> \o SubSeq(cols, loc + 1, Len(cols))

\* df[name] = values
SetCol(cols, name, dtype, vals) ==
    [i \in 1..Len(cols) |->
        IF cols[i].name = name
        THEN [name |-> name, dtype |-> dtype, vals |-> vals]
        ELSE cols[i]]

GetCol(cols, name) == cols[CHOOSE i \in 1..Len(cols) : cols[i].name = name]

\* DataFrame.drop(names, axis=1)
DropCols(cols, names) == SelectSeq(cols, LAMBDA c : c.name \notin names)

-----------------------------------------------------------------------------
(* Export cleaning: _clean_dataframe_for_export and its helpers *)

\* _clean_boolean_values returning its argument
CleanBooleanValuesKept(v) == v

\* _clean_boolean_values: int(bool)
CleanBooleanValues(v) == <<"int", IF v[2] THEN 1 ELSE 0>>

\* _clean_timedelta_values: HH:MM:SS of total_seconds(); a null Timedelta
\* makes int(nan) raise, which the bare except turns into None
CleanTimedeltaValues(v) ==
    IF v[1] # "td" THEN <<"None">>
    ELSE LET ts == v[2]
             hours == ts \div 3600
             remainder == ts % 3600
             minutes == remainder \div 60
             seconds == remainder % 60
         IN  <<"str", Fmt02d(hours) \o <<":">> \o Fmt02d(minutes) \o <<":">>
                        \o Fmt02d(seconds)>>

\* _is_valid_time_column without the NaT test on the first row
IsValidTimeColumnNoNaT(name, colTime) ==
    IF NUnique(colTime) < 1 THEN FALSE
    ELSE IF NUnique(colTime) = 1
            /\ Contains(HeadText(name, colTime), MidnightText)
         THEN FALSE
         ELSE TRUE

\* _is_valid_time_column
IsValidTimeColumn(name, colTime) ==
    IF NUnique(colTime) < 1 THEN FALSE
    ELSE IF NUnique(colTime) = 1
            /\ (Contains(HeadText(name, colTime), MidnightText)
                \/ Contains(HeadText(name, colTime), NaTText))
         THEN FALSE
         ELSE TRUE

DateHeader(name) == name \o <<"_", "D", "A", "T", "E">>
TimeHeader(name) == name \o <<"_", "T", "I", "M", "E">>

\* the locals of _clean_dataframe_for_export before its loop
CleanStart(cols) ==
    [cols |-> cols, map |-> {}, dateFields |-> <<>>, timeFields |-> <<>>,
     toDrop |-> {}, raised |-> FALSE]

\* the datetime branch of the loop body, for the column at Python index col
CleanDatetime(st, col, columnName) ==
    LET colMaster == GetCol(st.cols, columnName).vals
        colDate == MapSeq(DtDate, colMaster)
        colTime == MapSeq(DtTime, colMaster)
        dateVals == MapSeq(ReplaceNaT, MapSeq(AsStr, colDate))
        timeVals == MapSeq(AsStr, colTime)
        dateHeader == DateHeader(columnName)
        timeHeader == TimeHeader(columnName)
    IN  IF IsValidTimeColumn(columnName, colTime)
        THEN IF dateHeader \in ColNames(st.cols)
             THEN [st EXCEPT !.raised = TRUE]
             ELSE LET withDate ==
                          InsertAt(st.cols, col,
                                   [name |-> dateHeader, dtype |-> "object",
                                    vals |-> dateVals])
                  IN  IF timeHeader \in ColNames(withDate)
                      THEN [st EXCEPT !.cols = withDate,
                                      !.map = @ \cup {<<dateHeader, "date">>},
                                      !.dateFields = Append(@, dateHeader),
                                      !.raised = TRUE]
                      ELSE [st EXCEPT
                              !.cols = InsertAt(withDate, col + 1,
                                                [name |-> timeHeader,
                                                 dtype |-> "object",
                                                 vals |-> timeVals]),
                              !.map = @ \cup {<<dateHeader, "date">>,
                                              <<timeHeader, "time">>},
                              !.dateFields = Append(@, dateHeader),
                              !.timeFields = Append(@, timeHeader),
                              !.toDrop = @ \cup {columnName}]
        ELSE [st EXCEPT !.cols = SetCol(@, columnName, "object", dateVals),
                        !.map = @ \cup {<<columnName, "date">>},
                        !.dateFields = Append(@, columnName)]

\* the other branch with int8 columns written back as text
CleanOtherInt8AsText(st, columnType, columnName) ==
    LET vals == GetCol(st.cols, columnName).vals IN
    CASE columnType = "bool" ->
            [st EXCEPT !.cols = SetCol(@, columnName, "int64",
                                       MapSeq(CleanBooleanValues, vals)),
                       !.map = @ \cup {<<columnName, "boolean">>}]
      [] columnType = "int8" ->
            [st EXCEPT !.cols = SetCol(@, columnName, "object",
                                       MapSeq(AsStr, vals)),
                       !.map = @ \cup {<<columnName, "multistate">>}]
      [] columnType = "timedelta64[ns]" ->
            [st EXCEPT !.cols = SetCol(@, columnName, "category",
                                       MapSeq(CleanTimedeltaValues, vals)),
                       !.map = @ \cup {<<columnName, "time">>},
                       !.timeFields = Append(@, columnName)]
      [] OTHER -> st

\* the other branch of the loop body: bool, int8 and timedelta columns
CleanOther(st, columnType, columnName) ==
    LET vals == GetCol(st.cols, columnName).vals IN
    CASE columnType = "bool" ->
            [st EXCEPT !.cols = SetCol(@, columnName, "int64",
                                       MapSeq(CleanBooleanValues, vals)),
                       !.map = @ \cup {<<columnName, "boolean">>}]
      [] columnType = "int8" ->
            [st EXCEPT !.map = @ \cup {<<columnName, "multistate">>}]
      [] columnType = "timedelta64[ns]" ->
            [st EXCEPT !.cols = SetCol(@, columnName, "category",
                                       MapSeq(CleanTimedeltaValues, vals)),
                       !.map = @ \cup {<<columnName, "time">>},
                       !.timeFields = Append(@, columnName)]
      [] OTHER -> st

RECURSIVE CleanLoop(_, _, _)
\* for col in range(len(columns)), over the types and columns read before
\* the loop; c is col + 1
CleanLoop(st, orig, c) ==
    IF c > Len(orig) \/ st.raised THEN st
    ELSE LET columnType == orig[c].dtype
             columnName == orig[c].name
         IN  CleanLoop(IF columnType = "datetime64[ns]"
                       THEN CleanDatetime(st, c - 1, columnName)
                       ELSE CleanOther(st, columnType, columnName),
                       orig, c + 1)

\* _clean_dataframe_for_export(df): inPlace is df after the call (the caller's
\* object, changed by insert and by column assignment), cols the returned
\* frame (a new object made by drop)
CleanDataframeForExport(cols) ==
    LET st == CleanLoop(CleanStart(cols), cols, 1)
    IN  [raised |-> st.raised,
         inPlace |-> st.cols,
         cols |-> IF st.raised THEN <<>> ELSE DropCols(st.cols, st.toDrop),
         map |-> st.map,
         dateFields |-> st.dateFields,
         timeFields |-> st.timeFields]

-----------------------------------------------------------------------------
(* Export template: the field loop of _import_csv_into_idea *)

\* str(i).rsplit('.', 1)[-1]: the text after the last '.', or the whole
\* text when it holds no '.'
RSplitLast(text) ==
    LET dots == {i \in 1..Len(text) : text[i] = "."}
    IN  IF dots = {} THEN text
        ELSE LET last == CHOOSE i \in dots : \A j \in dots : j <= i
             IN  SubSeq(text, last + 1, Len(text))

IntTypes == {"int64", "int32", "int8", "int"}
FloatTypes == {"float64", "float32", "float16", "float8", "float"}

SeqToSet(s) == {s[i] : i \in 1..Len(s)}

\* the decimal places of a float column; max() raises on an empty list
FloatDecimals(vals) ==
    LET lens == [i \in 1..Len(vals) |-> Len(RSplitLast(CellText(vals[i])))]
        maximumnumberofdecimalplaces == SeqMax(lens)
    IN  IF maximumnumberofdecimalplaces > 6 THEN 6
        ELSE maximumnumberofdecimalplaces

\* idea.appendfield(name, name, a3, a4, a5, decimals, False, mask)
Field(name, a3, a4, a5, decimals, mask) ==
    [name |-> name, a3 |-> a3, a4 |-> a4, a5 |-> a5, decimals |-> decimals,
     mask |-> mask]

\* the field appended for one column of the cleaned frame
TemplateField(c, dateFields, timeFields) ==
    IF c.name \in SeqToSet(dateFields)
    THEN Field(c.name, 5, 66, 8, 0, "dateMask")
    ELSE IF c.name \in SeqToSet(timeFields)
    THEN Field(c.name, 117, 74, 11, 0, "timeMask")
    ELSE IF c.dtype = "category" /\ c.name \notin SeqToSet(dateFields)
    THEN Field(c.name, 1, 0, 1, 0, "")
    ELSE IF c.dtype \in IntTypes
    THEN Field(c.name, 2, 0, 1, 0, "")
    ELSE IF c.dtype \in FloatTypes
    THEN Field(c.name, 2, 0, 1, FloatDecimals(c.vals), "")
    ELSE Field(c.name, 1, 0, 1, 0, "")

\* the loop raises (max of an empty list) on a float column without values
TemplateRaises(cols, dateFields, timeFields) ==
    \E i \in 1..Len(cols) :
        /\ cols[i].name \notin SeqToSet(dateFields) \cup SeqToSet(timeFields)
        /\ cols[i].dtype \in FloatTypes
        /\ Len(cols[i].vals) = 0

TemplateFields(cols, dateFields, timeFields) ==
    [i \in 1..Len(cols) |-> TemplateField(cols[i], dateFields, timeFields)]

-----------------------------------------------------------------------------
(* Module initialisation: the separator configuration *)

\* locale.localeconv()["decimal_point"] of the locales considered
LocaleDecimalPoints == {".", ","}

\* the delimiter left at ',' whatever the locale
ModuleDelimiterComma(decimal_point) == ","

\* lines 32-36: DELIMITER = ','; DECIMAL_SEPARATOR = decimal_point;
\* if decimal_point != '.': DELIMITER = ';'
ModuleDelimiter(decimal_point) == IF decimal_point # "." THEN ";" ELSE ","
ModuleDecimalSeparator(decimal_point) == decimal_point

-----------------------------------------------------------------------------
(* The client singleton *)

\* a get_client() that connects again while __client is None
GetClientRetrying(inst, cli, connOK) ==
    IF inst /\ cli # "None"
    THEN [instance |-> TRUE, sclient |-> cli, raised |-> FALSE,
          ret |-> cli, trace |-> {}]
    ELSE IF connOK
         THEN [instance |-> TRUE, sclient |-> "client", raised |-> FALSE,
               ret |-> "client", trace |-> {"connect"}]
         ELSE [instance |-> TRUE, sclient |-> cli, raised |-> TRUE,
               ret |-> "None", trace |-> {"connect"}]

\* _SingletonIdeaClient.get_client(): the constructor sets __instance before
\* _connect_to_idea() runs, so a failed connection leaves __instance set and
\* __client None, and the exception goes to the caller
GetClient(inst, cli, connOK) ==
    IF inst
    THEN [instance |-> TRUE, sclient |-> cli, raised |-> FALSE,
          ret |-> cli, trace |-> {}]
    ELSE IF connOK
         THEN [instance |-> TRUE, sclient |-> "client", raised |-> FALSE,
               ret |-> "client", trace |-> {"connect"}]
         ELSE [instance |-> TRUE, sclient |-> cli, raised |-> TRUE,
               ret |-> "None", trace |-> {"connect"}]

-----------------------------------------------------------------------------
(* Text files and the IDEA store *)

NoFrame == <<>>

NRows(cols) == IF Len(cols) = 0 THEN 0 ELSE Len(cols[1].vals)

\* the records of a frame, one sequence of cells per row
RowsOf(cols) ==
    [j \in 1..NRows(cols) |-> [i \in 1..Len(cols) |-> cols[i].vals[j]]]

NoFile == [written |-> FALSE, sep |-> "", decimal |-> "", header |-> FALSE,
           names |-> <<>>, rows |-> <<>>]

\* _export_dataframe_to_csv: to_csv(sep=DELIMITER, header=False, decimal='.')
ExportDataframeToCsv(cols, delimiter) ==
    [written |-> TRUE, sep |-> delimiter, decimal |-> ".", header |-> FALSE,
     names |-> <<>>, rows |-> RowsOf(cols)]

\* store type codes of _map_database_col_types
WI_VIRT_CHAR == 0
WI_VIRT_NUM == 1
WI_VIRT_DATE == 2
WI_CHAR_FIELD == 3
WI_NUM_FIELD == 4
WI_DATE_FIELD == 5
WI_MULTISTATE == 9
WI_BOOL == 10
WI_TIME_FIELD == 11
WI_VIRT_TIME == 13
WI_EDIT_CHAR == 3
WI_EDIT_NUM == 4
WI_EDIT_DATE == 5
WI_EDIT_TIME == 11

TIMES == {WI_VIRT_TIME, WI_EDIT_TIME, WI_TIME_FIELD}
CHARS == {WI_VIRT_CHAR, WI_EDIT_CHAR, WI_CHAR_FIELD,
          WI_VIRT_DATE, WI_EDIT_DATE, WI_DATE_FIELD}
NUMS == {WI_VIRT_NUM, WI_EDIT_NUM, WI_NUM_FIELD}
fieldType == {WI_VIRT_DATE, WI_EDIT_DATE, WI_DATE_FIELD}

NoDb == [exists |-> FALSE, fields |-> <<>>, rows |-> <<>>, source |-> NoFrame]

\* the store type the template's field code stands for
\* (appendfield codes 5 date, 117 time, 2 numeric, 1 character)
StoreFieldType(a3) ==
    CASE a3 = 5 -> WI_DATE_FIELD
      [] a3 = 117 -> WI_TIME_FIELD
      [] a3 = 2 -> WI_NUM_FIELD
      [] OTHER -> WI_CHAR_FIELD

\* client.ImportUTF8DelimFile(csvPath, databaseName, True, "", rdfPath, False):
\* the store reads the file under the template; told that the first row holds
\* the field names, it does not import that row as a record.  source records
\* the frame the caller exported.
ImportUTF8DelimFile(csv, firstRowIsNames, fields, source) ==
    [exists |-> TRUE,
     fields |-> [i \in 1..Len(fields) |->
                    [name |-> fields[i].name,
                     type |-> StoreFieldType(fields[i].a3),
                     decimals |-> fields[i].decimals]],
     rows |-> IF firstRowIsNames /\ Len(csv.rows) > 0
              THEN Tail(csv.rows) ELSE csv.rows,
     source |-> source]

\* the text of a date field in the store's export: YYYYMMDD for a date the
\* store was given as YYYY-MM-DD, 00000000 for an empty date; a text of
\* eight characters is what the store holds in export form already
DateFieldText(v) ==
    IF v[1] # "str" THEN v
    ELSE IF Len(v[2]) = 10
         THEN <<"str", SubSeq(v[2], 1, 4) \o SubSeq(v[2], 6, 7)
                          \o SubSeq(v[2], 9, 10)>>
         ELSE IF Len(v[2]) = 8 THEN v
         ELSE <<"str", Zeros(8)>>

\* _export_database_from_IDEA: IncludeFieldNames = "TRUE",
\* Separators(DELIMITER, DECIMAL_SEPARATOR), records 1..db.Count
ExportDatabaseFromIDEA(db, delimiter, decimal) ==
    [written |-> TRUE, sep |-> delimiter, decimal |-> decimal, header |-> TRUE,
     names |-> [i \in 1..Len(db.fields) |-> db.fields[i].name],
     rows |-> [j \in 1..Len(db.rows) |->
                 [i \in 1..Len(db.fields) |->
                    IF db.fields[i].type \in fieldType
                    THEN DateFieldText(db.rows[j][i])
                    ELSE db.rows[j][i]]]]

-----------------------------------------------------------------------------
(* Import direction: the steps of idea2py's try block *)

\* a mapper that gives every numeric field float64
MappedTypeAllFloat(f) ==
    IF f.type \in CHARS THEN "object"
    ELSE IF f.type \in NUMS THEN "float64"
    ELSE IF f.type \in TIMES THEN ""
    ELSE IF f.type = WI_BOOL THEN "bool"
    ELSE IF f.type = WI_MULTISTATE THEN "int8"
    ELSE ""

\* the pandas type _map_database_col_types gives a field, "" when the field
\* gets no entry in columnPairs
MappedType(f) ==
    IF f.type \in CHARS THEN "object"
    ELSE IF f.type \in NUMS
         THEN (IF f.decimals = 0 THEN "int64" ELSE "float64")
    ELSE IF f.type \in TIMES THEN ""
    ELSE IF f.type = WI_BOOL THEN "bool"
    ELSE IF f.type = WI_MULTISTATE THEN "int8"
    ELSE ""

NamesOf(fields) == [i \in 1..Len(fields) |-> fields[i].name]

\* _map_database_col_types: columnPairs as the pairs <<name, type>> in
\* declared order, dates (never filled), times, fieldName
MapDatabaseColTypes(fields) ==
    [columnPairs |->
        LET mapped == SelectSeq(fields, LAMBDA f : MappedType(f) # "")
        IN  [i \in 1..Len(mapped) |-> <<mapped[i].name, MappedType(mapped[i])>>],
     dates |-> <<>>,
     times |-> NamesOf(SelectSeq(fields, LAMBDA f :
                    f.type \notin CHARS /\ f.type \notin NUMS
                    /\ f.type \in TIMES)),
     fieldName |-> NamesOf(SelectSeq(fields, LAMBDA f : f.type \in fieldType))]

\* mapping[name], "" when name is no key
MappingType(mapping, name) ==
    IF \E i \in 1..Len(mapping) : mapping[i][1] = name
    THEN mapping[CHOOSE i \in 1..Len(mapping) : mapping[i][1] = name][2]
    ELSE ""

RECURSIVE NatDigits(_)
NatDigits(n) == IF n < 10 THEN <<n>> ELSE NatDigits(n \div 10) \o <<n % 10>>

RECURSIVE StripZeros(_)
StripZeros(ds) ==
    IF Len(ds) > 1 /\ ds[Len(ds)] = 0 THEN StripZeros(SubSeq(ds, 1, Len(ds) - 1))
    ELSE ds

\* float(n) of a non-negative integer
IntToFloat(n) == <<"float", Len(NatDigits(n)), StripZeros(NatDigits(n))>>

\* read_csv's conversion of one cell under a column type; <<"error">> when
\* the cell cannot be converted.  An empty text field is read as NaN.
ParseCell(dtype, v) ==
    CASE dtype \in {"int64", "int8"} ->
            IF v[1] = "int" THEN v ELSE <<"error">>
      [] dtype = "float64" ->
            IF v[1] = "int" THEN IntToFloat(v[2])
            ELSE IF v[1] \in {"float", "nan"} THEN v
            ELSE IF v[1] = "str" /\ v[2] = <<>> THEN <<"nan">>
            ELSE <<"error">>
      [] dtype = "bool" ->
            IF v[1] = "bool" THEN v
            ELSE IF v[1] = "int" /\ v[2] \in {0, 1} THEN <<"bool", v[2] = 1>>
            ELSE <<"error">>
      [] OTHER ->
            IF v[1] = "str" /\ v[2] = <<>> THEN <<"nan">> ELSE v

\* _import_csv_as_dataframe: read_csv(dtype=colMapping, sep=DELIMITER,
\* decimal=DECIMAL_SEPARATOR), the first line being the header
ImportCsvAsDataframe(csv, colMapping) ==
    LET col(i) ==
            LET dtype == MappingType(colMapping, csv.names[i])
            IN  [name |-> csv.names[i],
                 dtype |-> IF dtype = "" THEN "object" ELSE dtype,
                 vals |-> [j \in 1..Len(csv.rows) |->
                              ParseCell(dtype, csv.rows[j][i])]]
        cols == [i \in 1..Len(csv.names) |-> col(i)]
    IN  [raised |-> \E i \in 1..Len(cols) : \E j \in 1..Len(cols[i].vals) :
                        cols[i].vals[j] = <<"error">>,
         cols |-> cols]

IsDigit(ch) == ch \in {"0", "1", "2", "3", "4", "5", "6", "7", "8", "9"}
DigitVal(ch) == CHOOSE n \in 0..9 : DigitChar(n) = ch

RECURSIVE DigitsValue(_)
\* int(text) of a text of digits
DigitsValue(t) ==
    IF Len(t) = 0 THEN 0
    ELSE 10 * DigitsValue(SubSeq(t, 1, Len(t) - 1)) + DigitVal(t[Len(t)])

\* the day of January 2024 a YYYYMMDD text names, 0 when it names none
YmdDay(t) ==
    IF Len(t) = 8 /\ (\A i \in 1..8 : IsDigit(t[i]))
       /\ SubSeq(t, 1, 6) = <<"2", "0", "2", "4", "0", "1">>
       /\ 10 * DigitVal(t[7]) + DigitVal(t[8]) \in 1..31
    THEN 10 * DigitVal(t[7]) + DigitVal(t[8])
    ELSE 0

\* pd.to_datetime(text, format='%Y%m%d') with errors='raise' and without
\* the replacement of 00000000
ParseYmdStrict(v) ==
    IF v[1] # "str" THEN NaT
    ELSE IF YmdDay(v[2]) > 0 THEN <<"dt", YmdDay(v[2]), 0, 0, 0, 0>>
    ELSE <<"error">>

\* pd.to_datetime(text, format='%Y%m%d', errors='coerce') after
\* replace({'00000000': nan}); the model's dates are the days of January 2024
ParseYmd(v) ==
    IF v[1] # "str" THEN NaT
    ELSE IF v[2] = Zeros(8) THEN NaT
    ELSE IF YmdDay(v[2]) > 0 THEN <<"dt", YmdDay(v[2]), 0, 0, 0, 0>>
    ELSE NaT

\* _convert_character_to_datetime: the date fields leave the mapping and
\* their columns become datetime64
ConvertCharacterToDatetime(cols, datefieldnames) ==
    [i \in 1..Len(cols) |->
        IF cols[i].name \in SeqToSet(datefieldnames)
        THEN [cols[i] EXCEPT !.dtype = "datetime64[ns]",
                             !.vals = MapSeq(ParseYmd, @)]
        ELSE cols[i]]

MappingWithout(mapping, datefieldnames) ==
    SelectSeq(mapping, LAMBDA p : p[1] \notin SeqToSet(datefieldnames))

\* the seconds of the text H..H:MM:SS, -1 when the text is not of that form
ClockSeconds(t) ==
    LET colons == {i \in 1..Len(t) : t[i] = ":"}
        p == IF colons = {} THEN 0 ELSE CHOOSE i \in colons : \A j \in colons : i <= j
    IN  IF p > 1 /\ Len(t) = p + 5 /\ t[p + 3] = ":"
           /\ (\A i \in (1..p - 1) \cup {p + 1, p + 2, p + 4, p + 5} : IsDigit(t[i]))
        THEN LET n(i) == 10 * DigitVal(t[i]) + DigitVal(t[i + 1])
             IN  3600 * DigitsValue(SubSeq(t, 1, p - 1)) + 60 * n(p + 1) + n(p + 4)
        ELSE -1

\* the microseconds of the text .ffffff, 0 for the empty text, -1 otherwise
FractionMicros(t) ==
    IF t = <<>> THEN 0
    ELSE IF Len(t) = 7 /\ t[1] = "." /\ (\A i \in 2..7 : IsDigit(t[i]))
         THEN DigitsValue(SubSeq(t, 2, 7))
         ELSE -1

\* the Timedelta of minus (secs seconds and us microseconds)
NegateTimedelta(secs, us) ==
    IF us = 0 THEN <<"td", 0 - secs, 0>> ELSE <<"td", 0 - secs - 1, 1000000 - us>>

\* pd.to_timedelta of one cell: [-]H..H:MM:SS[.ffffff] text, a leading '-'
\* negating the whole; null for a null
ParseTimedelta(v) ==
    IF IsNull(v) THEN NaT
    ELSE IF v[1] = "str" /\ v[2] = NaTText THEN NaT
    ELSE IF v[1] = "str" /\ Len(v[2]) > 0
         THEN LET neg == v[2][1] = "-"
                  t == IF neg THEN Tail(v[2]) ELSE v[2]
                  dots == {i \in 1..Len(t) : t[i] = "."}
                  d == IF dots = {} THEN Len(t) + 1
                       ELSE CHOOSE i \in dots : \A j \in dots : i <= j
                  secs == ClockSeconds(SubSeq(t, 1, d - 1))
                  us == FractionMicros(SubSeq(t, d, Len(t)))
              IN  IF secs < 0 \/ us < 0 THEN <<"error">>
                  ELSE IF neg THEN NegateTimedelta(secs, us)
                  ELSE <<"td", secs, us>>
         ELSE <<"error">>

\* _clean_imported_times
CleanImportedTimes(cols, times) ==
    [i \in 1..Len(cols) |->
        IF cols[i].name \in SeqToSet(times)
        THEN [cols[i] EXCEPT !.dtype = "timedelta64[ns]",
                             !.vals = MapSeq(ParseTimedelta, @)]
        ELSE cols[i]]

\* _clean_imported_dates: re-parses the columns of dates that are not
\* datetime64 yet
CleanImportedDates(cols, dates) ==
    [i \in 1..Len(cols) |->
        IF cols[i].name \in SeqToSet(dates)
           /\ cols[i].dtype # "datetime64[ns]"
        THEN [cols[i] EXCEPT !.dtype = "datetime64[ns]"]
        ELSE cols[i]]

UNIQUE_VALUE_THRESHHOLD == 2500

\* _get_keys_by_value(mapping, object)
GetKeysByValue(mapping, value) ==
    LET hits == SelectSeq(mapping, LAMBDA p : p[2] = value)
    IN  [i \in 1..Len(hits) |-> hits[i][1]]

\* _convert_characters_to_categories with <= for <
ConvertCharactersToCategoriesAtMost(cols, characters) ==
    [i \in 1..Len(cols) |->
        IF cols[i].name \in SeqToSet(characters)
           /\ NUnique(cols[i].vals) <= UNIQUE_VALUE_THRESHHOLD
        THEN [cols[i] EXCEPT !.dtype = "category"]
        ELSE cols[i]]

\* _convert_characters_to_categories
ConvertCharactersToCategories(cols, characters) ==
    [i \in 1..Len(cols) |->
        IF cols[i].name \in SeqToSet(characters)
           /\ NUnique(cols[i].vals) < UNIQUE_VALUE_THRESHHOLD
        THEN [cols[i] EXCEPT !.dtype = "category"]
        ELSE cols[i]]

\* The locals of idea2py's try block: csv the text file the store exported,
\* columnPairs, dates, times and fieldName what _map_database_col_types
\* returned, mapping the dict columnPairs as later statements changed it,
\* cols the dataframe; state names the last statement done, "raised" when
\* it raised.
NotImported ==
    [state |-> "notrun", csv |-> NoFile, columnPairs |-> <<>>,
     mapping |-> <<>>, dates |-> <<>>, times |-> <<>>, fieldName |-> <<>>,
     cols |-> NoFrame]

\* tempPath = _export_database_from_IDEA(db, client, tempDirPath)
Exported(csv) == [NotImported EXCEPT !.state = "exported", !.csv = csv]

\* mapping, dates, times, datefieldnames = _map_database_col_types(db, client)
Mapped(imp, m) ==
    [imp EXCEPT !.state = "mapped", !.columnPairs = m.columnPairs,
                !.mapping = m.columnPairs, !.dates = m.dates,
                !.times = m.times, !.fieldName = m.fieldName]

\* dataframe = _import_csv_as_dataframe(tempPath, mapping, dates)
ReadCsv(imp, read) ==
    [imp EXCEPT !.state = IF read.raised THEN "raised" ELSE "read",
                !.cols = read.cols]

\* _convert_character_to_datetime(dataframe, mapping, datefieldnames)
Dated(imp) ==
    IF imp.state = "raised" THEN imp
    ELSE [imp EXCEPT !.state = "dated",
                     !.cols = ConvertCharacterToDatetime(@, imp.fieldName),
                     !.mapping = MappingWithout(@, imp.fieldName)]

HasErrorCell(cols) ==
    \E i \in 1..Len(cols) : \E j \in 1..Len(cols[i].vals) :
        cols[i].vals[j] = <<"error">>

\* _clean_imported_times(dataframe, times): pd.to_timedelta raises on a
\* text it cannot read
Timed(imp, timed) ==
    [imp EXCEPT !.state = IF HasErrorCell(timed) THEN "raised" ELSE "timed",
                !.cols = timed]

\* _clean_imported_dates(dataframe, dates)
Redated(imp) ==
    IF imp.state = "raised" THEN imp
    ELSE [imp EXCEPT !.state = "redated",
                     !.cols = CleanImportedDates(@, imp.dates)]

\* characters = _get_keys_by_value(mapping, object)
\* _convert_characters_to_categories(dataframe, characters)
Categorized(imp) ==
    IF imp.state = "raised" THEN imp
    ELSE [imp EXCEPT !.state = "categorized",
                     !.cols = ConvertCharactersToCategories(
                                  @, GetKeysByValue(imp.mapping, "object"))]

MapStep(imp, fields) == Mapped(imp, MapDatabaseColTypes(fields))

ReadStep(imp) == ReadCsv(imp, ImportCsvAsDataframe(imp.csv, imp.mapping))

TimeStep(imp) ==
    IF imp.state = "raised" THEN imp
    ELSE Timed(imp, CleanImportedTimes(imp.cols, imp.times))

\* lines 465-480 of idea2py: from the exported text to the dataframe
BuildDataframe(db, csv) ==
    Categorized(Redated(TimeStep(Dated(ReadStep(
        MapStep(Exported(csv), db.fields))))))

-----------------------------------------------------------------------------
(* idea2py *)

DbPaths == {"acc.imd", "acc1.imd"}

\* path.splitext(database): the names considered carry .imd or no extension
HasDbExtension(name) == name \in {"acc.imd", "acc1.imd", "wd\\acc.imd"}

\* root + ideaExtension, and the file a name stands for in the working folder
WithExtension(name) == IF name = "acc" THEN "acc.imd" ELSE name
FileOf(name) == IF name = "wd\\acc.imd" THEN "acc.imd" ELSE name

NoTempDir == [created |-> FALSE, cleanup |-> FALSE, onDisk |-> FALSE,
              files |-> {}]

\* tempDir.cleanup(): the directory and its files are removed
CleanedUp == [created |-> TRUE, cleanup |-> TRUE, onDisk |-> FALSE,
              files |-> {}]

\* a return without cleanup(): the TemporaryDirectory object is dropped with
\* the directory and its files still on disk
Abandoned(files) ==
    [created |-> TRUE, cleanup |-> FALSE, onDisk |-> TRUE, files |-> files]

\* the finalizer of a dropped TemporaryDirectory, run when the interpreter
\* collects the object: the directory and its files are removed
Finalized == [created |-> TRUE, cleanup |-> FALSE, onDisk |-> FALSE,
              files |-> {}]

NoCall == [op |-> "none", ret |-> "none", frame |-> NoFrame, db |-> "",
           trace |-> {}, failedAt |-> "", target |-> "", csv |-> NoFile,
           location |-> "", emptyInput |-> FALSE]

\* the record-count test left out
IsEmptyDatabaseNever(db) == FALSE

\* db.Count == 0
IsEmptyDatabase(db) == Len(db.rows) = 0

\* an except clause that logs and falls through to `return dataframe`
Idea2PyExceptFallsThrough(step, trace, files, partial) ==
    [ret |-> "frame", frame |-> partial.cols, failedAt |-> step,
     trace |-> trace, files |-> files, cleanup |-> TRUE, imported |-> partial]

\* the except clause of idea2py's try block (lines 483-488); partial holds
\* the locals of the try block when the exception came
Idea2PyExcept(step, trace, files, partial) ==
    [ret |-> "None", frame |-> NoFrame, failedAt |-> step, trace |-> trace,
     files |-> files, cleanup |-> FALSE, imported |-> partial]

\* the outcome of idea2py's try block and of the return after it, given
\* the locals built the block ends with when no step of the store fails
Idea2PyOutcome(built, fault) ==
    IF fault = "export"
    THEN Idea2PyExcept("export", {"export"}, {}, NotImported)
    ELSE IF fault = "tabledef"
    THEN Idea2PyExcept("tabledef", {"export", "tabledef"},
                       {"tempExport.del"}, Exported(built.csv))
    ELSE IF fault = "parse" \/ built.state = "raised"
    THEN Idea2PyExcept("parse", {"export", "tabledef"},
                       {"tempExport.del"}, built)
    ELSE [ret |-> "frame", frame |-> built.cols, failedAt |-> "",
          trace |-> {"export", "tabledef"}, files |-> {},
          cleanup |-> TRUE, imported |-> built]

\* the try block of idea2py (lines 461-482) and the return after it
Idea2PyTry(db, delimiter, decimal, fault) ==
    Idea2PyOutcome(
        BuildDataframe(db, ExportDatabaseFromIDEA(db, delimiter, decimal)),
        fault)

\* In the record of a call, ret is the kind of value returned ("None", "db",
\* "frame", or "raised" for an exception), frame the returned dataframe,
\* trace the interactions with the store, failedAt the step that failed,
\* target the database file the arguments name, csv the text file written,
\* location the path of an intermediate file carried by the return value
\* (neither function returns one), emptyInput whether the input had no rows.

\* idea2py(database, client): clientArg is "given" or "None", database a
\* name or "None"; current is the name of the store's current database and
\* picked the file chosen in its dialog ("" for none); fault names the step
\* of the store that fails if the call reaches it
Idea2PyRun(clientArg, database, current, picked, fault, inst, cli, st, delimiter, decimal) ==
    LET g == IF clientArg = "None" THEN GetClient(inst, cli, fault # "connect")
             ELSE [instance |-> inst, sclient |-> cli, raised |-> FALSE,
                   ret |-> "client", trace |-> {}]
        client == g.ret
        out(ret, frame, trace, failedAt, tmp, target, imp) ==
            [instance |-> g.instance, sclient |-> g.sclient, store |-> st,
             tempDir |-> tmp, imported |-> imp,
             call |-> [op |-> "idea2py", ret |-> ret, frame |-> frame,
                       db |-> "", trace |-> g.trace \cup trace,
                       failedAt |-> failedAt, target |-> target,
                       csv |-> imp.csv, location |-> "",
                       emptyInput |-> target # "" /\ st[target].exists
                                      /\ Len(st[target].rows) = 0]]
        named == IF database # "None" THEN database
                 ELSE IF current # "" THEN current ELSE picked
        t1 == IF database = "None" /\ client # "None"
              THEN (IF current # "" THEN {"currentdb"}
                    ELSE {"currentdb", "dialog"})
              ELSE {}
        needExt == ~HasDbExtension(named)
        t2 == t1 \cup (IF needExt THEN {"getext"} ELSE {})
        name == FileOf(WithExtension(named))
        designated == IF named = "" THEN "" ELSE name
        tried(r) ==
            out(r.ret, r.frame,
                t2 \cup {"open", "count"} \cup r.trace,
                r.failedAt,
                IF r.cleanup THEN CleanedUp ELSE Abandoned(r.files),
                designated, r.imported)
    IN  IF g.raised
        THEN out("raised", NoFrame, {}, "connect", NoTempDir, "", NotImported)
        ELSE IF database = "None" /\ client = "None"
        THEN out("raised", NoFrame, {}, "client", NoTempDir, "", NotImported)
        ELSE IF database = "None" /\ current = "" /\ picked = ""
        THEN out("None", NoFrame, t1, "", NoTempDir, "", NotImported)
        ELSE IF needExt /\ fault = "ext"
        THEN out("raised", NoFrame, t2, "ext", NoTempDir, designated, NotImported)
        ELSE IF client = "None"
        THEN out("None", NoFrame, t2, "open", NoTempDir, designated, NotImported)
        ELSE IF fault = "open" \/ ~st[name].exists
        THEN out("None", NoFrame, t2 \cup {"open"}, "open", NoTempDir,
                 designated, NotImported)
        ELSE IF fault = "count"
        THEN out("raised", NoFrame, t2 \cup {"open", "count"}, "count",
                 NoTempDir, designated, NotImported)
        ELSE IF IsEmptyDatabase(st[name])
        THEN out("None", NoFrame, t2 \cup {"open", "count"}, "", NoTempDir,
                 designated, NotImported)
        ELSE tried(Idea2PyTry(st[name], delimiter, decimal, fault))

-----------------------------------------------------------------------------
(* py2idea *)

\* len(dataframe) == 0
IsEmptyDataframe(cols) == NRows(cols) = 0

\* a UniqueFileName that gives back the name it was given
UniqueFileNameSame(name) == name

\* client.UniqueFileName(databaseName)
UniqueFileName(name) == "acc1.imd"

\* the third argument of client.ImportUTF8DelimFile at line 564
ImportFirstRowIsNames == TRUE

\* the except clause of py2idea's try block (lines 748-753)
Py2IdeaExcept(step, trace, files, csv, cl, tpl, db) ==
    [ret |-> "None", failedAt |-> step, trace |-> trace, files |-> files,
     cleanup |-> FALSE, csv |-> csv, cleaned |-> cl, template |-> tpl,
     db |-> db]

NotCleaned == [state |-> "notrun", raised |-> FALSE, inPlace |-> NoFrame,
               cols |-> NoFrame, map |-> {}, dateFields |-> <<>>,
               timeFields |-> <<>>]

Cleaned(cols) ==
    LET c == CleanDataframeForExport(cols)
    IN  [state |-> IF c.raised THEN "raised" ELSE "returned",
         raised |-> c.raised, inPlace |-> c.inPlace, cols |-> c.cols,
         map |-> c.map, dateFields |-> c.dateFields,
         timeFields |-> c.timeFields]

NoTemplate == [state |-> "notrun", fields |-> <<>>]

\* the field loop of _import_csv_into_idea over the cleaned frame
Template(cl) ==
    IF TemplateRaises(cl.cols, cl.dateFields, cl.timeFields)
    THEN [state |-> "raised", fields |-> <<>>]
    ELSE [state |-> "built",
          fields |-> TemplateFields(cl.cols, cl.dateFields, cl.timeFields)]

\* the outcome of py2idea's try block (lines 741-746) and of the return
\* after it, given what each step produces: cl the cleaned frame, csv the
\* text file, tpl the record definition, db the imported database
Py2IdeaOutcome(cl, csv, tpl, db, client, fault) ==
        IF cl.raised
        THEN Py2IdeaExcept("clean", {}, {}, NoFile, cl, NoTemplate, NoDb)
        ELSE IF fault = "export"
        THEN Py2IdeaExcept("export", {}, {}, NoFile, cl, NoTemplate, NoDb)
        ELSE IF fault = "ext"
        THEN Py2IdeaExcept("ext", {"getext"}, {"temp_export.csv"}, csv, cl,
                           NoTemplate, NoDb)
        ELSE IF fault = "template" \/ tpl.state = "raised"
        THEN Py2IdeaExcept("template", {"getext", "language", "rdf"},
                           {"temp_export.csv"}, csv, cl, tpl, NoDb)
        ELSE IF fault = "import" \/ client = "None"
        THEN Py2IdeaExcept("import",
                           {"getext", "language", "rdf"}
                               \cup (IF client = "None" THEN {} ELSE {"import"}),
                           {"temp_export.csv", "temp_definition.rdf"},
                           csv, cl, tpl, NoDb)
        ELSE IF fault = "open"
        THEN Py2IdeaExcept("open", {"getext", "language", "rdf", "import", "open"},
                           {"temp_export.csv", "temp_definition.rdf"},
                           csv, cl, tpl, db)
        ELSE [ret |-> "db", failedAt |-> "",
              trace |-> {"getext", "language", "rdf", "import", "open"},
              files |-> {}, cleanup |-> TRUE, csv |-> csv, cleaned |-> cl,
              template |-> tpl, db |-> db]

\* _import_csv_into_idea: the record definition, then the import of the
\* text file under it
Py2IdeaImport(cl, csv, tpl, cols, client, fault) ==
    Py2IdeaOutcome(cl, csv, tpl,
                   ImportUTF8DelimFile(csv, ImportFirstRowIsNames, tpl.fields,
                                       cols),
                   client, fault)

\* _export_dataframe_to_csv on the cleaned frame, then _import_csv_into_idea
Py2IdeaExport(cl, cols, client, delimiter, fault) ==
    Py2IdeaImport(cl, ExportDataframeToCsv(cl.cols, delimiter), Template(cl),
                  cols, client, fault)

\* the try block of py2idea (lines 741-746): clean, write the text file,
\* build the template, import, open
Py2IdeaTry(cols, client, delimiter, fault) ==
    Py2IdeaExport(Cleaned(cols), cols, client, delimiter, fault)

\* py2idea(dataframe, databaseName, client, createUniqueFile): dfNone says
\* that dataframe is None, cols is the frame otherwise
Py2IdeaRun(clientArg, dfNone, cols, databaseName, createUniqueFile, fault, inst, cli, st, delimiter) ==
    LET g == IF clientArg = "None" THEN GetClient(inst, cli, fault # "connect")
             ELSE [instance |-> inst, sclient |-> cli, raised |-> FALSE,
                   ret |-> "client", trace |-> {}]
        client == g.ret
        out(ret, trace, failedAt, tmp, target, r, newStore) ==
            [instance |-> g.instance, sclient |-> g.sclient,
             store |-> newStore, tempDir |-> tmp,
             df |-> IF r.cleaned.state = "notrun" THEN cols
                    ELSE r.cleaned.inPlace,
             cleaned |-> r.cleaned, template |-> r.template,
             call |-> [op |-> "py2idea", ret |-> ret, frame |-> NoFrame,
                       db |-> IF ret = "db" THEN target ELSE "",
                       trace |-> g.trace \cup trace, failedAt |-> failedAt,
                       target |-> target, csv |-> r.csv,
                       location |-> "",
                       emptyInput |-> ~dfNone /\ Len(cols) > 0
                                      /\ Len(cols[1].vals) = 0]]
        early == [cleaned |-> NotCleaned, template |-> NoTemplate,
                  csv |-> NoFile]
        needExt == ~HasDbExtension(databaseName)
        t1 == IF needExt THEN {"getext"} ELSE {}
        needDir == databaseName # "wd\\acc.imd"
        t2 == t1 \cup (IF needDir THEN {"workdir"} ELSE {})
        name == FileOf(WithExtension(databaseName))
        exists == st[name].exists
        target == IF exists /\ createUniqueFile THEN UniqueFileName(name)
                  ELSE name
        t3 == t2 \cup (IF exists /\ createUniqueFile THEN {"uniquename"} ELSE {})
        tried(r) ==
            out(r.ret, t3 \cup r.trace, r.failedAt,
                IF r.cleanup THEN CleanedUp ELSE Abandoned(r.files),
                target, r,
                IF r.db.exists THEN [st EXCEPT ![target] = r.db] ELSE st)
    IN  IF g.raised
        THEN out("raised", {}, "connect", NoTempDir, "", early, st)
        ELSE IF databaseName = "None" \/ dfNone
        THEN out("None", {}, "", NoTempDir, "", early, st)
        ELSE IF IsEmptyDataframe(cols)
        THEN out("None", {}, "", NoTempDir, "", early, st)
        ELSE IF needExt /\ fault = "ext"
        THEN out("raised", t1, "ext", NoTempDir, "", early, st)
        ELSE IF needDir /\ (client = "None" \/ fault = "workdir")
        THEN out("raised", IF client = "None" THEN t1 ELSE t2,
                 IF client = "None" THEN "client" ELSE "workdir",
                 NoTempDir, "", early, st)
        ELSE IF exists /\ ~createUniqueFile
        THEN out("None", t2, "exists", NoTempDir, name, early, st)
        ELSE IF exists /\ createUniqueFile /\ client = "None"
        THEN out("raised", t2, "client", NoTempDir, name, early, st)
        ELSE tried(Py2IdeaTry(cols, client, delimiter, fault))

-----------------------------------------------------------------------------
(* The GUI: the import button, the download thread, import_to_idea *)

\* RestrictedAccountsGUI after __init__: the import button is created
\* disabled, no file is tracked, the download thread is not started, no
\* click waits in the event queue and no handler runs.  button is the state
\* of import_idea_button, downloaded whether downloaded_file_path is set,
\* thread the position of the download thread, queued the clicks on the
\* button waiting in the event queue, clicked the clicks made, ignored the
\* clicks dispatched while the button was disabled, stack the positions of
\* the import_to_idea calls on the main thread's stack (the last is the one
\* running), done the calls that ended in the finally clause.
NoGui ==
    [button |-> "disabled", downloaded |-> FALSE, thread |-> "notstarted",
     queued |-> 0, clicked |-> 0, ignored |-> 0, stack |-> <<>>, done |-> 0,
     result |-> "none", printed |-> "", shown |-> ""]

\* what the last save_to_idea call came to: "db" when py2idea returned the
\* database, "None" when py2idea returned None, "raised" when py2idea raised,
\* "notcalled" when a statement before py2idea raised
SaveOutcomes == {"db", "None", "raised", "notcalled"}

\* save_to_idea, lines 68-76: "Import successful." is printed when the
\* py2idea call returns, the value it returns is not looked at; the except
\* clause prints the error and the CSV path
SaveToIdeaPrints(outcome) ==
    IF outcome \in {"db", "None"} THEN "Import successful."
    ELSE "Error saving to IDEA; CSV file is saved to"

\* import_to_idea, lines 667-675: save_to_idea returns None in every case
\* and raises nothing, so the success message box follows
ImportToIdeaShows(outcome) == "success"

\* the positions of import_to_idea at which the main thread runs an event
\* loop: messagebox.showerror (647), root.update() (652, 665),
\* messagebox.askyesno in save_to_idea, messagebox.showinfo / showerror
\* (672, 682)
EventLoopPositions == {"nofile", "update1", "update2", "asking", "reporting"}

\* the event loop dispatches: mainloop with no handler running, or the
\* event loop of the running handler
Dispatching(g) ==
    IF Len(g.stack) = 0 THEN TRUE
    ELSE g.stack[Len(g.stack)] \in EventLoopPositions

Top(g) == IF Len(g.stack) = 0 THEN "none" ELSE g.stack[Len(g.stack)]

\* the running handler moves to position pc
MoveTo(g, pc) == [g EXCEPT !.stack[Len(g.stack)] = pc]

\* the running handler returns
Return(g) == [g EXCEPT !.stack = SubSeq(@, 1, Len(@) - 1)]

\* import_to_idea without line 650
ButtonLeftEnabled(b) == b

\* self.import_idea_button.configure(state='disabled') in import_to_idea
ButtonDisabled(b) == "disabled"

\* CTkButton._clicked: the command runs unless the button is disabled
Clicked(g) ==
    IF g.button = "disabled"
    THEN [g EXCEPT !.queued = @ - 1, !.ignored = @ + 1]
    ELSE [g EXCEPT !.queued = @ - 1, !.stack = Append(@, "entered")]

-----------------------------------------------------------------------------
(* The download pipeline: process_zip_file and its helpers *)

\* process_zip_file not called.  books are the workbooks of the archive,
\* each with its number of data rows and whether read_excel can parse it;
\* zip and extracted say whether downloaded.zip and the extraction directory
\* exist; parsed are the files save_parsed_result wrote; combined is the
\* file at final_output_path; raisedIn the steps in which an exception was
\* raised; pending the value of the return statement reached, ret the value
\* returned after the finally clause.
NoPipeline ==
    [pc |-> "notrun", books |-> <<>>, zip |-> FALSE, extracted |-> FALSE,
     parsed |-> <<>>, combined |-> [exists |-> FALSE, rows |-> <<>>],
     raisedIn |-> {}, pending |-> "none", ret |-> "none"]

\* parse_excel_file of workbook i: the rows of the sheet, or parsed_data None
\* with the error when read_excel raised
ParseExcelFile(book, i) ==
    IF book.parses
    THEN [parsed_data |-> [k \in 1..book.rows |-> <<i, "data", k>>],
          failed |-> FALSE]
    ELSE [parsed_data |-> <<>>, failed |-> TRUE]

\* save_parsed_result: <name>_parsed.csv holding the parsed rows, or the one
\* row of error info when parsed_data is None; <name>_parsed.txt when writing
\* the CSV raised
SaveParsedResult(parsedData, i, written) ==
    IF written
    THEN [kind |-> "csv",
          rows |-> IF parsedData.failed THEN <<<<i, "error">>>>
                   ELSE parsedData.parsed_data]
    ELSE [kind |-> "txt", rows |-> <<>>]

RECURSIVE Concat(_, _, _)
\* pd.concat of the frames read from the .csv files among files n..Len(files)
\* that read_csv could read
Concat(files, unreadable, n) ==
    IF n > Len(files) THEN <<>>
    ELSE (IF files[n].kind = "csv" /\ n \notin unreadable
          THEN files[n].rows ELSE <<>>)
             \o Concat(files, unreadable, n + 1)

\* the .csv files read_csv could read
ReadFrames(files, unreadable) ==
    {n \in 1..Len(files) : files[n].kind = "csv" /\ n \notin unreadable}

\* combine_results: the combined file is written when at least one frame was
\* read and nothing raised; every exception is caught and printed
CombineResults(files, unreadable, writeOK) ==
    IF ReadFrames(files, unreadable) # {} /\ writeOK
    THEN [exists |-> TRUE, rows |-> Concat(files, unreadable, 1)]
    ELSE [exists |-> FALSE, rows |-> <<>>]

\* the return statement reached with value v: the finally clause is next
Leave(p, v) == [p EXCEPT !.pc = "finally", !.pending = v]

\* an exception raised in step: the except clause of process_zip_file
Raise(p, step) ==
    [Leave(p, "None") EXCEPT !.raisedIn = @ \cup {step}]

-----------------------------------------------------------------------------
(* Inputs *)

ColName(i) == <<<<"A">>, <<"B">>, <<"C">>, <<"D">>, <<"E">>>>[i]

\* the frames with n columns of r rows whose columns come from pool
Frames(pool, n, r) ==
    {[i \in 1..n |-> [name |-> ColName(i), dtype |-> f[i][1], vals |-> f[i][2]]] :
        f \in [1..n -> pool]}

Columns(dtype, values, r) == {<<dtype, v>> : v \in [1..r -> values]}

\* datetime values: null, a midnight, a time of day
DatetimeValues == {NaT, <<"dt", 1, 0, 0, 0, 0>>, <<"dt", 2, 10, 30, 0, 0>>}

\* float values: NaN, 5.5, 19.999999, 2.0, 1e-07
FloatValues ==
    {<<"nan">>, <<"float", 1, <<5, 5>>>>,
     <<"float", 2, <<1, 9, 9, 9, 9, 9, 9, 9>>>>, <<"float", 1, <<2>>>>,
     <<"float", -6, <<1>>>>}

ExportPool(r) ==
    Columns("datetime64[ns]", DatetimeValues, r)
        \cup Columns("int64", {<<"int", 7>>}, r)

FloatPool(r) == Columns("float64", FloatValues, r)

BoolValues == {<<"bool", TRUE>>, <<"bool", FALSE>>}

\* durations: null, 1:30:00, zero, 23:59:59, 1.5 seconds, minus 1:30:00,
\* 100 hours
TimedeltaValues ==
    {NaT, <<"td", 5400, 0>>, <<"td", 0, 0>>, <<"td", 86399, 0>>,
     <<"td", 1, 500000>>, <<"td", -5400, 0>>, <<"td", 360000, 0>>}

TextValues == {<<"str", <<"x">>>>, <<"None">>}

\* the integer dtypes of numpy, signed and of every width
IntegerDtypes == {"int8", "int16", "int32", "int64"}

\* columns of Boolean values, of every integer width, of durations, of text
\* and of categories
TypedPool(r) ==
    Columns("bool", BoolValues, r)
        \cup UNION {Columns(t, {<<"int", 7>>}, r) : t \in IntegerDtypes}
        \cup Columns("timedelta64[ns]", TimedeltaValues, r)
        \cup Columns("object", TextValues, r)
        \cup Columns("category", TextValues, r)

\* one column of each type, for the frames of columns of several types
MixedPool(r) ==
    {<<"datetime64[ns]", [j \in 1..r |-> <<"dt", 2, 10, 30, 0, 0>>]>>,
     <<"bool", [j \in 1..r |-> <<"bool", TRUE>>]>>,
     <<"int16", [j \in 1..r |-> <<"int", 7>>]>>,
     <<"float64", [j \in 1..r |-> <<"float", 1, <<5, 5>>>>]>>,
     <<"timedelta64[ns]", [j \in 1..r |-> <<"td", 5400, 0>>]>>,
     <<"object", [j \in 1..r |-> <<"str", <<"x">>>>]>>,
     <<"category", [j \in 1..r |-> <<"str", <<"x">>>>]>>}

\* the frames given to the export cleaning, at least one row and one column:
\* frames of datetime and integer columns, frames of one column of every
\* other type, and frames of columns of several types
ExportTables ==
    UNION {Frames(ExportPool(r), n, r) : <<n, r>> \in (1..MaxCols) \X (1..MaxRows)}
        \cup UNION {Frames(FloatPool(r) \cup TypedPool(r), 1, r) : r \in 1..MaxRows}
        \cup UNION {Frames(MixedPool(1), n, 1) : n \in 2..MaxCols}

MainPool(r) == Columns("int64", {<<"int", 7>>}, r)

\* the frames given to py2idea: one column, zero rows included
MainTables == UNION {Frames(MainPool(r), 1, r) : r \in 0..MaxRows}

\* a database made in the store itself: a character, a numeric, a date and a
\* time field
OutsideFields ==
    <<[name |-> <<"N">>, type |-> WI_CHAR_FIELD, decimals |-> 0],
      [name |-> <<"Q">>, type |-> WI_NUM_FIELD, decimals |-> 2],
      [name |-> <<"D">>, type |-> WI_DATE_FIELD, decimals |-> 0],
      [name |-> <<"T">>, type |-> WI_TIME_FIELD, decimals |-> 0]>>

OutsideRow ==
    <<<<"str", <<"x">>>>, <<"float", 1, <<5, 5>>>>, <<"str", DateText(1)>>,
      <<"str", TimeText(10, 30, 0, 0)>>>>

OutsideDbs ==
    {[exists |-> TRUE, fields |-> OutsideFields, rows |-> rows,
      source |-> NoFrame] : rows \in {<<>>, <<OutsideRow>>}}

Absent == [p \in DbPaths |-> NoDb]

\* the kinds of field of a store database: type code and decimals
FieldKinds ==
    {<<t, 0>> : t \in CHARS \cup TIMES \cup NUMS \cup {WI_BOOL, WI_MULTISTATE}}
        \cup {<<t, 2>> : t \in NUMS}

\* a cell of a field of kind k as the store holds it
KindCell(k) ==
    IF k[1] \in fieldType THEN <<"str", DateText(2)>>
    ELSE IF k[1] \in CHARS THEN <<"str", <<"x">>>>
    ELSE IF k[1] \in TIMES THEN <<"str", TimeText(10, 30, 0, 0)>>
    ELSE IF k[1] \in NUMS /\ k[2] > 0 THEN <<"float", 1, <<5, 5>>>>
    ELSE IF k[1] = WI_BOOL THEN <<"int", 1>>
    ELSE <<"int", 7>>

\* the one-record databases of n fields of every kind
KindDbs(n) ==
    {[exists |-> TRUE,
      fields |-> [i \in 1..n |-> [name |-> ColName(i), type |-> ks[i][1],
                                  decimals |-> ks[i][2]]],
      rows |-> <<[i \in 1..n |-> KindCell(ks[i])]>>,
      source |-> NoFrame] : ks \in [1..n -> FieldKinds]}

\* the texts of a date field: the empty date, two dates, a day that does not
\* exist, a text that is no date
DateTexts ==
    {<<"str", Zeros(8)>>, <<"str", DateText(2)>>,
     <<"str", <<"2", "0", "2", "4", "0", "1", "3", "1">>>>,
     <<"str", <<"2", "0", "2", "4", "0", "1", "3", "2">>>>,
     <<"str", <<"a", "b", "c", "d", "e", "f", "g", "h">>>>}

CharTexts == {<<"str", <<"x">>>>, <<"str", <<"y">>>>, <<"str", <<>>>>}

\* the databases of one field of the given type whose r records hold the
\* given cells
CellDbs(type, cells, r) ==
    {[exists |-> TRUE,
      fields |-> <<[name |-> ColName(1), type |-> type, decimals |-> 0]>>,
      rows |-> [j \in 1..r |-> <<v[j]>>],
      source |-> NoFrame] : v \in [1..r -> cells]}

\* the numbers of distinct values around the category threshold
DistinctCounts ==
    {UNIQUE_VALUE_THRESHHOLD - 1, UNIQUE_VALUE_THRESHHOLD,
     UNIQUE_VALUE_THRESHHOLD + 1}

\* a character field holding the n distinct texts "1" .. "n"
DistinctDb(n) ==
    [exists |-> TRUE,
     fields |-> <<[name |-> ColName(1), type |-> WI_CHAR_FIELD,
                   decimals |-> 0]>>,
     rows |-> [j \in 1..n |-> <<<<"str", NatText(j)>>>>],
     source |-> NoFrame]

\* the databases given to the import steps
ImportDbs ==
    UNION {KindDbs(n) : n \in 1..MaxCols}
        \cup UNION {CellDbs(WI_DATE_FIELD, DateTexts, r) : r \in 1..MaxRows}
        \cup UNION {CellDbs(WI_CHAR_FIELD, CharTexts, r) : r \in 1..MaxRows}
        \cup {DistinctDb(n) : n \in DistinctCounts}

InitialStores ==
    {[Absent EXCEPT !["acc.imd"] = d] : d \in {NoDb} \cup OutsideDbs}

Idea2PyFaults ==
    {"none", "connect", "ext", "open", "count", "export", "tabledef", "parse"}

Py2IdeaFaults ==
    {"none", "connect", "ext", "workdir", "export", "template", "import", "open"}

-----------------------------------------------------------------------------
(* The conversion calls *)

Init ==
    /\ \E decimal_point \in LocaleDecimalPoints :
            /\ DELIMITER = ModuleDelimiter(decimal_point)
            /\ DECIMAL_SEPARATOR = ModuleDecimalSeparator(decimal_point)
    /\ instance = FALSE
    /\ sclient = "None"
    /\ store \in InitialStores
    /\ tempDir = NoTempDir
    /\ df = NoFrame
    /\ passed = NoFrame
    /\ cleaned = NotCleaned
    /\ template = NoTemplate
    /\ call = NoCall
    /\ imported = NotImported
    /\ gui = NoGui
    /\ pipeline = NoPipeline

\* idea_client()
IdeaClient ==
    \E connOK \in BOOLEAN :
        LET g == GetClient(instance, sclient, connOK) IN
        /\ instance' = g.instance
        /\ sclient' = g.sclient
        /\ call' = [NoCall EXCEPT !.op = "idea_client",
                                  !.ret = IF g.raised THEN "raised" ELSE g.ret,
                                  !.trace = g.trace,
                                  !.failedAt = IF g.raised THEN "connect" ELSE ""]
        /\ tempDir' = NoTempDir
        /\ df' = NoFrame
        /\ passed' = NoFrame
        /\ cleaned' = NotCleaned
        /\ template' = NoTemplate
        /\ imported' = NotImported
        /\ UNCHANGED <<DELIMITER, DECIMAL_SEPARATOR, store, gui, pipeline>>

\* the arguments of a py2idea call and the step of the store that fails
Py2IdeaInputs ==
    {i \in [clientArg : {"None", "given"}, dfNone : BOOLEAN,
            cols : MainTables \cup {NoFrame},
            databaseName : {"None", "acc", "acc.imd", "wd\\acc.imd"},
            createUniqueFile : BOOLEAN, fault : Py2IdeaFaults] :
        /\ i.dfNone <=> i.cols = NoFrame
        /\ (i.dfNone \/ i.databaseName = "None") =>
                ~i.createUniqueFile /\ i.fault \in {"none", "connect"}
        /\ i.dfNone => i.databaseName = "acc"
        /\ i.databaseName = "None" => NRows(i.cols) = 1
        /\ i.fault = "ext" => i.databaseName \in {"acc", "acc.imd"}
        /\ i.fault = "workdir" => i.databaseName = "acc.imd"
        /\ i.fault = "connect" => i.clientArg = "None"}

\* py2idea(dataframe, databaseName, client, createUniqueFile)
Py2Idea ==
    \E i \in Py2IdeaInputs :
        /\ i.createUniqueFile =>
                store["acc.imd"].exists /\ ~store["acc1.imd"].exists
        /\ \E r \in {Py2IdeaRun(i.clientArg, i.dfNone, i.cols, i.databaseName,
                                i.createUniqueFile, i.fault, instance, sclient,
                                store, DELIMITER)} :
               /\ instance' = r.instance
               /\ sclient' = r.sclient
               /\ store' = r.store
               /\ tempDir' = r.tempDir
               /\ df' = r.df
               /\ passed' = i.cols
               /\ cleaned' = r.cleaned
               /\ template' = r.template
               /\ call' = r.call
        /\ imported' = NotImported
        /\ UNCHANGED <<DELIMITER, DECIMAL_SEPARATOR, gui, pipeline>>

\* the arguments of an idea2py call, the store's current database, the file
\* picked in its dialog, and the step of the store that fails
Idea2PyInputs ==
    {i \in [clientArg : {"None", "given"},
            database : {"None", "acc", "acc.imd", "acc1.imd"},
            current : {"", "acc.imd"}, picked : {"", "acc.imd"},
            fault : Idea2PyFaults] :
        /\ i.database # "None" => i.current = "" /\ i.picked = ""
        /\ i.current # "" => i.picked = ""
        /\ i.fault = "ext" => i.database = "acc"
        /\ i.fault = "connect" => i.clientArg = "None"
        /\ i.database \in {"None", "acc1.imd"} => i.fault \in {"none", "connect"}}

\* idea2py(database, client)
Idea2Py ==
    \E i \in Idea2PyInputs :
        /\ \E r \in {Idea2PyRun(i.clientArg, i.database, i.current, i.picked,
                                i.fault, instance, sclient, store, DELIMITER,
                                DECIMAL_SEPARATOR)} :
               /\ instance' = r.instance
               /\ sclient' = r.sclient
               /\ store' = r.store
               /\ tempDir' = r.tempDir
               /\ call' = r.call
               /\ imported' = r.imported
        /\ df' = NoFrame
        /\ passed' = NoFrame
        /\ cleaned' = NotCleaned
        /\ template' = NoTemplate
        /\ UNCHANGED <<DELIMITER, DECIMAL_SEPARATOR, gui, pipeline>>

\* the interpreter collects a dropped TemporaryDirectory and its finalizer
\* removes the directory
FinalizeTempDir ==
    /\ tempDir.created
    /\ ~tempDir.cleanup
    /\ tempDir.onDisk
    /\ tempDir' = Finalized
    /\ UNCHANGED <<DELIMITER, DECIMAL_SEPARATOR, instance, sclient, store, df,
                   passed, cleaned, template, call, imported, gui, pipeline>>

Next == IdeaClient \/ Py2Idea \/ Idea2Py \/ FinalizeTempDir

Spec == Init /\ [][Next]_vars

-----------------------------------------------------------------------------
(* The export cleaning and the template on their own *)

InitExport ==
    /\ DELIMITER = ModuleDelimiter(".")
    /\ DECIMAL_SEPARATOR = ModuleDecimalSeparator(".")
    /\ instance = FALSE
    /\ sclient = "None"
    /\ store = Absent
    /\ tempDir = NoTempDir
    /\ df \in ExportTables
    /\ passed = df
    /\ cleaned = NotCleaned
    /\ template = NoTemplate
    /\ call = NoCall
    /\ imported = NotImported
    /\ gui = NoGui
    /\ pipeline = NoPipeline

\* dataframe, mapping, dateFields, timeFields = _clean_dataframe_for_export(df)
CleanForExport ==
    /\ cleaned.state = "notrun"
    /\ cleaned' = Cleaned(df)
    /\ df' = cleaned'.inPlace
    /\ UNCHANGED <<DELIMITER, DECIMAL_SEPARATOR, instance, sclient, store,
                   tempDir, passed, template, call, imported, gui, pipeline>>

\* the field loop of _import_csv_into_idea over the cleaned frame
BuildTemplate ==
    /\ cleaned.state = "returned"
    /\ template.state = "notrun"
    /\ template' = Template(cleaned)
    /\ UNCHANGED <<DELIMITER, DECIMAL_SEPARATOR, instance, sclient, store,
                   tempDir, df, passed, cleaned, call, imported, gui, pipeline>>

NextExport == CleanForExport \/ BuildTemplate

SpecExport == InitExport /\ [][NextExport]_vars

-----------------------------------------------------------------------------
(* Export followed by import of the same database *)

InitRound ==
    /\ \E decimal_point \in LocaleDecimalPoints :
            /\ DELIMITER = ModuleDelimiter(decimal_point)
            /\ DECIMAL_SEPARATOR = ModuleDecimalSeparator(decimal_point)
    /\ instance = FALSE
    /\ sclient = "None"
    /\ store = Absent
    /\ tempDir = NoTempDir
    /\ df \in ExportTables
    /\ passed = df
    /\ cleaned = NotCleaned
    /\ template = NoTemplate
    /\ call = NoCall
    /\ imported = NotImported
    /\ gui = NoGui
    /\ pipeline = NoPipeline

\* py2idea(df, "acc") with a store that answers every request
RoundExport ==
    /\ call.op = "none"
    /\ \E r \in {Py2IdeaRun("None", FALSE, df, "acc", FALSE, "none", instance,
                            sclient, store, DELIMITER)} :
           /\ instance' = r.instance
           /\ sclient' = r.sclient
           /\ store' = r.store
           /\ tempDir' = r.tempDir
           /\ df' = r.df
           /\ cleaned' = r.cleaned
           /\ template' = r.template
           /\ call' = r.call
    /\ UNCHANGED <<DELIMITER, DECIMAL_SEPARATOR, passed, imported, gui, pipeline>>

\* idea2py("acc") on the database py2idea returned
RoundImport ==
    /\ call.op = "py2idea"
    /\ call.ret = "db"
    /\ \E r \in {Idea2PyRun("None", "acc", "", "", "none", instance, sclient,
                            store, DELIMITER, DECIMAL_SEPARATOR)} :
           /\ instance' = r.instance
           /\ sclient' = r.sclient
           /\ store' = r.store
           /\ tempDir' = r.tempDir
           /\ call' = r.call
           /\ imported' = r.imported
    /\ UNCHANGED <<DELIMITER, DECIMAL_SEPARATOR, df, passed, cleaned, template,
                   gui, pipeline>>

NextRound == RoundExport \/ RoundImport

SpecRound == InitRound /\ [][NextRound]_vars

-----------------------------------------------------------------------------
(* The statements of idea2py's try block, one at a time, on a database *)

InitImport ==
    /\ DELIMITER = ModuleDelimiter(".")
    /\ DECIMAL_SEPARATOR = ModuleDecimalSeparator(".")
    /\ instance = FALSE
    /\ sclient = "None"
    /\ store \in {[Absent EXCEPT !["acc.imd"] = d] : d \in ImportDbs}
    /\ tempDir = NoTempDir
    /\ df = NoFrame
    /\ passed = NoFrame
    /\ cleaned = NotCleaned
    /\ template = NoTemplate
    /\ call = NoCall
    /\ imported = NotImported
    /\ gui = NoGui
    /\ pipeline = NoPipeline

\* tempPath = _export_database_from_IDEA(db, client, tempDirPath)
ExportDatabase ==
    /\ imported.state = "notrun"
    /\ imported' = Exported(ExportDatabaseFromIDEA(store["acc.imd"], DELIMITER,
                                                   DECIMAL_SEPARATOR))
    /\ UNCHANGED <<DELIMITER, DECIMAL_SEPARATOR, instance, sclient, store,
                   tempDir, df, passed, cleaned, template, call, gui, pipeline>>

\* mapping, dates, times, datefieldnames = _map_database_col_types(db, client)
MapColTypes ==
    /\ imported.state = "exported"
    /\ imported' = MapStep(imported, store["acc.imd"].fields)
    /\ UNCHANGED <<DELIMITER, DECIMAL_SEPARATOR, instance, sclient, store,
                   tempDir, df, passed, cleaned, template, call, gui, pipeline>>

\* dataframe = _import_csv_as_dataframe(tempPath, mapping, dates)
ImportCsv ==
    /\ imported.state = "mapped"
    /\ imported' = ReadStep(imported)
    /\ UNCHANGED <<DELIMITER, DECIMAL_SEPARATOR, instance, sclient, store,
                   tempDir, df, passed, cleaned, template, call, gui, pipeline>>

\* _convert_character_to_datetime(dataframe, mapping, datefieldnames)
ConvertDates ==
    /\ imported.state = "read"
    /\ imported' = Dated(imported)
    /\ UNCHANGED <<DELIMITER, DECIMAL_SEPARATOR, instance, sclient, store,
                   tempDir, df, passed, cleaned, template, call, gui, pipeline>>

\* _clean_imported_times(dataframe, times)
CleanTimes ==
    /\ imported.state = "dated"
    /\ imported' = TimeStep(imported)
    /\ UNCHANGED <<DELIMITER, DECIMAL_SEPARATOR, instance, sclient, store,
                   tempDir, df, passed, cleaned, template, call, gui, pipeline>>

\* _clean_imported_dates(dataframe, dates)
CleanDates ==
    /\ imported.state = "timed"
    /\ imported' = Redated(imported)
    /\ UNCHANGED <<DELIMITER, DECIMAL_SEPARATOR, instance, sclient, store,
                   tempDir, df, passed, cleaned, template, call, gui, pipeline>>

\* _convert_characters_to_categories(dataframe, characters)
ConvertCategories ==
    /\ imported.state = "redated"
    /\ imported' = Categorized(imported)
    /\ UNCHANGED <<DELIMITER, DECIMAL_SEPARATOR, instance, sclient, store,
                   tempDir, df, passed, cleaned, template, call, gui, pipeline>>

NextImport ==
    \/ ExportDatabase \/ MapColTypes \/ ImportCsv \/ ConvertDates
    \/ CleanTimes \/ CleanDates \/ ConvertCategories

SpecImport == InitImport /\ [][NextImport]_vars

-----------------------------------------------------------------------------
(* The GUI on its own: clicks, the download thread, import_to_idea *)

\* the clicks a user makes on the import button
MaxClicks == 3

InitGui ==
    /\ DELIMITER = ModuleDelimiter(".")
    /\ DECIMAL_SEPARATOR = ModuleDecimalSeparator(".")
    /\ instance = FALSE
    /\ sclient = "None"
    /\ store = Absent
    /\ tempDir = NoTempDir
    /\ df = NoFrame
    /\ passed = NoFrame
    /\ cleaned = NotCleaned
    /\ template = NoTemplate
    /\ call = NoCall
    /\ imported = NotImported
    /\ gui = NoGui
    /\ pipeline = NoPipeline

\* root.after(100, self.download_from_github): the event loop runs
\* download_from_github, which starts the thread
StartDownload ==
    /\ gui.thread = "notstarted"
    /\ Dispatching(gui)
    /\ gui' = [gui EXCEPT !.thread = "running"]
    /\ UNCHANGED <<libVars, pipeline>>

\* the thread finds today's file or downloads the latest one:
\* self.downloaded_file_path = ... (569, 627)
DownloadSetsPath ==
    /\ gui.thread = "running"
    /\ gui' = [gui EXCEPT !.thread = "pathset", !.downloaded = TRUE]
    /\ UNCHANGED <<libVars, pipeline>>

\* the thread returns or raises before it has a file (585, 597, 615, 638)
DownloadFails ==
    /\ gui.thread = "running"
    /\ gui' = [gui EXCEPT !.thread = "ended"]
    /\ UNCHANGED <<libVars, pipeline>>

\* self.import_idea_button.configure(state='normal') (570, 628)
DownloadEnablesButton ==
    /\ gui.thread = "pathset"
    /\ gui' = [gui EXCEPT !.thread = "enabled", !.button = "normal"]
    /\ UNCHANGED <<libVars, pipeline>>

\* the thread logs, shows its message and ends
DownloadEnds ==
    /\ gui.thread = "enabled"
    /\ gui' = [gui EXCEPT !.thread = "ended"]
    /\ UNCHANGED <<libVars, pipeline>>

\* the user clicks the import button: the click waits in the event queue
UserClicks ==
    /\ gui.clicked < MaxClicks
    /\ gui' = [gui EXCEPT !.clicked = @ + 1, !.queued = @ + 1]
    /\ UNCHANGED <<libVars, pipeline>>

\* the event loop dispatches a click to the button
DispatchClick ==
    /\ gui.queued > 0
    /\ Dispatching(gui)
    /\ gui' = Clicked(gui)
    /\ UNCHANGED <<libVars, pipeline>>

\* import_to_idea, line 646: no file tracked, or the file is not on disk
ImportFindsNoFile ==
    /\ Top(gui) = "entered"
    /\ gui' = MoveTo(gui, "nofile")
    /\ UNCHANGED <<libVars, pipeline>>

\* import_to_idea, line 646: the tracked file is on disk
ImportFindsFile ==
    /\ Top(gui) = "entered"
    /\ gui.downloaded
    /\ gui' = MoveTo(gui, "checked")
    /\ UNCHANGED <<libVars, pipeline>>

\* the message box of line 647 is closed and import_to_idea returns
ImportReturnsNoFile ==
    /\ Top(gui) = "nofile"
    /\ gui' = Return(gui)
    /\ UNCHANGED <<libVars, pipeline>>

\* lines 650-652: the button is disabled, then root.update() is entered
ImportDisablesButton ==
    /\ Top(gui) = "checked"
    /\ gui' = [MoveTo(gui, "update1") EXCEPT !.button = ButtonDisabled(@)]
    /\ UNCHANGED <<libVars, pipeline>>

\* root.update() of line 652 returns; lines 655-665 enter the second one
ImportLogs ==
    /\ Top(gui) = "update1"
    /\ gui' = MoveTo(gui, "update2")
    /\ UNCHANGED <<libVars, pipeline>>

\* line 667: save_to_idea gets the client and asks for the project
ImportAsks ==
    /\ Top(gui) = "update2"
    /\ gui' = MoveTo(gui, "asking")
    /\ UNCHANGED <<libVars, pipeline>>

\* the question is answered: read_csv and py2idea run
ImportConverts ==
    /\ Top(gui) = "asking"
    /\ gui' = MoveTo(gui, "converting")
    /\ UNCHANGED <<libVars, pipeline>>

\* save_to_idea ends, by the return of py2idea or by an exception before or
\* in it, and prints; import_to_idea shows its message box (672)
ImportReports ==
    /\ Top(gui) \in {"asking", "converting"}
    /\ \E outcome \in IF Top(gui) = "asking" THEN {"notcalled"}
                      ELSE SaveOutcomes \ {"notcalled"} :
           gui' = [MoveTo(gui, "reporting") EXCEPT
                      !.result = outcome,
                      !.printed = SaveToIdeaPrints(outcome),
                      !.shown = ImportToIdeaShows(outcome)]
    /\ UNCHANGED <<libVars, pipeline>>

\* finally (683-684): the button is enabled and import_to_idea returns
ImportFinally ==
    /\ Top(gui) = "reporting"
    /\ gui' = [Return(gui) EXCEPT !.button = "normal", !.done = @ + 1]
    /\ UNCHANGED <<libVars, pipeline>>

NextGui ==
    \/ StartDownload \/ DownloadSetsPath \/ DownloadFails
    \/ DownloadEnablesButton \/ DownloadEnds
    \/ UserClicks \/ DispatchClick
    \/ ImportFindsNoFile \/ ImportFindsFile \/ ImportReturnsNoFile
    \/ ImportDisablesButton \/ ImportLogs \/ ImportAsks \/ ImportConverts
    \/ ImportReports \/ ImportFinally

SpecGui == InitGui /\ [][NextGui]_vars

-----------------------------------------------------------------------------
(* The download pipeline on its own *)

\* the workbooks of an archive
MaxBooks == 2

Workbooks ==
    UNION {[1..n -> [rows : 1..2, parses : BOOLEAN]] : n \in 0..MaxBooks}

InitPipeline ==
    /\ DELIMITER = ModuleDelimiter(".")
    /\ DECIMAL_SEPARATOR = ModuleDecimalSeparator(".")
    /\ instance = FALSE
    /\ sclient = "None"
    /\ store = Absent
    /\ tempDir = NoTempDir
    /\ df = NoFrame
    /\ passed = NoFrame
    /\ cleaned = NotCleaned
    /\ template = NoTemplate
    /\ call = NoCall
    /\ imported = NotImported
    /\ gui = NoGui
    /\ pipeline \in {[NoPipeline EXCEPT !.pc = "start", !.books = b] :
                        b \in Workbooks}

\* download_zip(zip_url, zip_path): the request fails, the download breaks
\* off with the file begun, or the file is written
DownloadZip ==
    /\ pipeline.pc = "start"
    /\ \E outcome \in {"written", "begun", "norequest"} :
           pipeline' =
               IF outcome = "written"
               THEN [pipeline EXCEPT !.pc = "downloaded", !.zip = TRUE]
               ELSE Raise([pipeline EXCEPT !.zip = (outcome = "begun")],
                          "download")
    /\ UNCHANGED <<libVars, gui>>

\* extract_zip(zip_path, extract_dir): the directory is made, then the
\* archive is extracted or found bad
ExtractZip ==
    /\ pipeline.pc = "downloaded"
    /\ \E ok \in BOOLEAN :
           pipeline' =
               IF ok THEN [pipeline EXCEPT !.pc = "extracted", !.extracted = TRUE]
               ELSE Raise([pipeline EXCEPT !.extracted = TRUE], "extract")
    /\ UNCHANGED <<libVars, gui>>

\* excel_files = find_excel_files(extract_dir); return None when empty
FindExcelFiles ==
    /\ pipeline.pc = "extracted"
    /\ pipeline' = IF Len(pipeline.books) = 0 THEN Leave(pipeline, "None")
                   ELSE [pipeline EXCEPT !.pc = "parsing"]
    /\ UNCHANGED <<libVars, gui>>

\* one turn of the loop: parse_excel_file, which catches its exception, and
\* save_parsed_result, which writes the CSV, or the text file when that
\* raised, or raises from its fallback
ParseWorkbook ==
    /\ pipeline.pc = "parsing"
    /\ \E saved \in {"csv", "txt", "raised"} :
           LET i == Len(pipeline.parsed) + 1
               parsedData == ParseExcelFile(pipeline.books[i], i)
               p == [pipeline EXCEPT
                        !.raisedIn = @ \cup (IF parsedData.failed
                                             THEN {"parse"} ELSE {})]
           IN  pipeline' =
                   IF saved = "raised" THEN Raise(p, "save")
                   ELSE [p EXCEPT
                            !.parsed = Append(@, SaveParsedResult(
                                                     parsedData, i,
                                                     saved = "csv")),
                            !.pc = IF i = Len(pipeline.books)
                                   THEN "combining" ELSE "parsing"]
    /\ UNCHANGED <<libVars, gui>>

\* combine_results(parsed_file_paths, final_output_path), then
\* return final_output_path
CombineParsed ==
    /\ pipeline.pc = "combining"
    /\ \E unreadable \in SUBSET (1..Len(pipeline.parsed)), writeOK \in BOOLEAN :
           pipeline' =
               [Leave(pipeline, "path") EXCEPT
                   !.combined = CombineResults(pipeline.parsed, unreadable,
                                               writeOK),
                   !.raisedIn = @ \cup (IF writeOK THEN {} ELSE {"combine"})]
    /\ UNCHANGED <<libVars, gui>>

\* finally: the zip file and the extraction directory are removed, and the
\* function returns
CleanupAndReturn ==
    /\ pipeline.pc = "finally"
    /\ pipeline' = [pipeline EXCEPT !.pc = "returned", !.zip = FALSE,
                                    !.extracted = FALSE, !.ret = pipeline.pending]
    /\ UNCHANGED <<libVars, gui>>

NextPipeline ==
    \/ DownloadZip \/ ExtractZip \/ FindExcelFiles \/ ParseWorkbook
    \/ CombineParsed \/ CleanupAndReturn

SpecPipeline == InitPipeline /\ [][NextPipeline]_vars

-----------------------------------------------------------------------------
(* Properties *)

IsDatetime(c) == c.dtype = "datetime64[ns]"

Midnight(v) == v[1] = "dt" /\ <<v[3], v[4], v[5], v[6]>> = <<0, 0, 0, 0>>

HasNonMidnightTime(vals) ==
    \E j \in 1..Len(vals) : vals[j][1] = "dt" /\ ~Midnight(vals[j])

AllMidnightOrNull(vals) ==
    \A j \in 1..Len(vals) : vals[j] = NaT \/ Midnight(vals[j])

CleanedNames == NamesOf(cleaned.cols)

\* C1: after export cleaning, every datetime column with at least one
\* non-null, non-midnight time value is replaced by its <name>_DATE and
\* <name>_TIME columns, wherever the null or midnight values sit.
C1_SplitWhenAnyNonMidnight ==
    cleaned.state = "returned" =>
        \A i \in 1..Len(passed) :
            IsDatetime(passed[i]) /\ HasNonMidnightTime(passed[i].vals) =>
                /\ DateHeader(passed[i].name) \in SeqToSet(CleanedNames)
                /\ TimeHeader(passed[i].name) \in SeqToSet(CleanedNames)
                /\ passed[i].name \notin SeqToSet(CleanedNames)

RECURSIVE ReplacedInPlace(_, _)
\* the original column names with each split column replaced by its pair
ReplacedInPlace(cols, split) ==
    IF cols = <<>> THEN <<>>
    ELSE (IF cols[1].name \in split
          THEN <<DateHeader(cols[1].name), TimeHeader(cols[1].name)>>
          ELSE <<cols[1].name>>) \o ReplacedInPlace(Tail(cols), split)

SplitNames ==
    {passed[i].name : i \in {k \in 1..Len(passed) :
        DateHeader(passed[k].name) \in SeqToSet(CleanedNames)}}

\* C2: the columns of the cleaned frame are the original columns in their
\* order, each split datetime column replaced in place by <name>_DATE
\* immediately followed by <name>_TIME.
C2_PairsInPlace ==
    cleaned.state = "returned" =>
        CleanedNames = ReplacedInPlace(passed, SplitNames)

\* the calendar-date rendering of a datetime value, empty for a null
CalendarDate(v) == IF v = NaT THEN <<"str", <<>>>> ELSE <<"str", DateText(v[2])>>

\* C3: a datetime column whose time values are all midnight or null is kept
\* as exactly one column of that name, rendered as calendar dates and listed
\* in the date fields, with no <name>_DATE and no <name>_TIME column.
C3_MidnightColumnKept ==
    cleaned.state = "returned" =>
        \A i \in 1..Len(passed) :
            IsDatetime(passed[i]) /\ AllMidnightOrNull(passed[i].vals) =>
                /\ Cardinality({k \in 1..Len(cleaned.cols) :
                        cleaned.cols[k].name = passed[i].name}) = 1
                /\ GetCol(cleaned.cols, passed[i].name).vals
                        = MapSeq(CalendarDate, passed[i].vals)
                /\ passed[i].name \in SeqToSet(cleaned.dateFields)
                /\ DateHeader(passed[i].name) \notin SeqToSet(CleanedNames)
                /\ TimeHeader(passed[i].name) \notin SeqToSet(CleanedNames)

\* a cleaned frame with a datetime column holding a null and a midnight
C3_Witness ==
    /\ cleaned.state = "returned"
    /\ \E i \in 1..Len(passed) :
            /\ IsDatetime(passed[i])
            /\ AllMidnightOrNull(passed[i].vals)
            /\ \E j \in 1..Len(passed[i].vals) : passed[i].vals[j] = NaT
            /\ \E j \in 1..Len(passed[i].vals) : Midnight(passed[i].vals[j])
            /\ passed[i].name \in SeqToSet(CleanedNames)

\* the number of characters after the decimal point of a text, 0 when the
\* text has no decimal point
CharsAfterPoint(text) ==
    IF \E i \in 1..Len(text) : text[i] = "."
    THEN Len(text) - (CHOOSE i \in 1..Len(text) :
                        text[i] = "." /\ \A j \in 1..(i - 1) : text[j] # ".")
    ELSE 0

\* C4: the decimal-place count of every Float column in the template is
\* min(6, the largest number of characters after the decimal point among the
\* text renderings of its values), and 0 for a column without values.
C4_DecimalPlaces ==
    template.state = "built" =>
        \A i \in 1..Len(cleaned.cols) :
            cleaned.cols[i].dtype \in FloatTypes =>
                template.fields[i].decimals =
                    IF Len(cleaned.cols[i].vals) = 0 THEN 0
                    ELSE Min(6, SeqMax([j \in 1..Len(cleaned.cols[i].vals) |->
                            CharsAfterPoint(CellText(cleaned.cols[i].vals[j]))]))

\* a float cut after its sixth decimal place
SixPlaces(v) ==
    IF v[1] # "float" THEN v
    ELSE IF v[2] + 6 <= 0 THEN <<"float", 0, <<0>>>>
    ELSE <<"float", v[2], SubSeq(v[3], 1, Min(Len(v[3]), v[2] + 6))>>

SameCell(a, b) == a = b \/ SixPlaces(a) = SixPlaces(b)

SameTable(t, f) ==
    /\ Len(f) = Len(t)
    /\ NRows(f) = NRows(t)
    /\ \A i \in 1..Len(t) : \A j \in 1..NRows(t) :
            SameCell(t[i].vals[j], f[i].vals[j])

\* C5: idea2py on the database py2idea made of a non-empty frame returns a
\* frame with as many rows and columns and the same cell values, floats
\* compared to six decimal places.
C5_RoundTrip ==
    (call.op = "idea2py" /\ call.target # ""
     /\ store[call.target].source # NoFrame) =>
        /\ call.ret = "frame"
        /\ SameTable(store[call.target].source, call.frame)

\* C6: a call of idea2py or py2idea that created a temporary directory has
\* deleted it by cleanup() when it returns, whether it succeeded or failed.
C6_TempDirDeletedAtReturn ==
    (call.op \in {"idea2py", "py2idea"} /\ tempDir.created) => tempDir.cleanup

\* C7 as stated: a zero-row input is rejected with None, without any
\* interaction with the store and without a temporary directory.
C7_NoStoreInteraction ==
    call.emptyInput =>
        call.ret = "None" /\ call.trace = {} /\ ~tempDir.created

\* C7 as amended: a zero-row input creates no temporary directory, runs no
\* import or export task, reads no column definitions and creates no
\* database; a normal return is None, an exception comes only from the
\* connection, the extension setting or the record count; py2idea's only
\* interaction with the store is the connection, idea2py's are the
\* connection, the name of the database, the open and the record count.
C7_EmptyInputRejected ==
    call.emptyInput =>
        /\ ~tempDir.created
        /\ call.ret \in {"None", "raised"}
        /\ call.ret = "raised" => call.failedAt \in {"connect", "ext", "count"}
        /\ call.frame = NoFrame /\ call.db = ""
        /\ call.op = "py2idea" => call.trace \subseteq {"connect"}
        /\ call.op = "idea2py" =>
                call.trace \subseteq {"connect", "currentdb", "dialog",
                                      "getext", "open", "count"}

\* idea2py has opened a zero-row database, read its count and returned None
C7_Witness ==
    /\ call.op = "idea2py"
    /\ call.emptyInput
    /\ call.ret = "None"
    /\ "count" \in call.trace

\* C8: when opening the database, exporting it or reading its column
\* definitions fails, idea2py returns None and no dataframe.
C8_StoreUnavailableGivesNone ==
    (call.op = "idea2py" /\ call.failedAt \in {"open", "export", "tabledef"}) =>
        call.ret = "None" /\ call.frame = NoFrame

\* idea2py returned after the read of the column definitions failed
C8_Witness ==
    /\ call.op = "idea2py"
    /\ call.failedAt = "tabledef"
    /\ "export" \in call.trace
    /\ call.ret = "None"

\* C9: when py2idea has written the text export and the import into the
\* store then fails, the caller gets the location of the text export with
\* the failure, and the file is still there.
C9_FailureReturnsExportLocation ==
    (call.op = "py2idea" /\ call.csv.written
     /\ call.failedAt \in {"ext", "template", "import", "open"}) =>
        /\ call.location = "temp_export.csv"
        /\ tempDir.onDisk
        /\ "temp_export.csv" \in tempDir.files

\* C10: whenever the decimal separator is not '.', the delimiter is ';' and
\* not ',', and no step changes either of them.
C10_SeparatorInvariant ==
    /\ [](DECIMAL_SEPARATOR # "." => DELIMITER = ";" /\ DELIMITER # ",")
    /\ [][DELIMITER' = DELIMITER /\ DECIMAL_SEPARATOR' = DECIMAL_SEPARATOR]_vars

\* a text file written by py2idea under a locale whose decimal point is ','
C10_Witness ==
    /\ DECIMAL_SEPARATOR = ","
    /\ call.op = "py2idea"
    /\ call.csv.written
    /\ call.csv.sep = ";"

\* C11: every text file a conversion writes (the store's export read by
\* idea2py, the table's export given to the store by py2idea) carries the
\* configured delimiter and the configured decimal separator, whatever the
\* locale.
C11_SeparatorsOfEveryFile ==
    call.csv.written =>
        /\ call.csv.sep = DELIMITER
        /\ call.csv.decimal = DECIMAL_SEPARATOR

\* the import has passed _convert_character_to_datetime
DatesConverted == imported.state \in {"dated", "timed", "redated", "categorized"}

\* the YYYYMMDD text of day d of January 2024
YmdText(d) == <<"2", "0", "2", "4", "0", "1">> \o Pad2(d)

\* the date an exported text stands for: none for 00000000 and for every
\* text that is not the YYYYMMDD form of a day
DateOfText(v) ==
    IF \E d \in 1..31 : v = <<"str", YmdText(d)>>
    THEN <<"dt", CHOOSE d \in 1..31 : v = <<"str", YmdText(d)>>, 0, 0, 0, 0>>
    ELSE NaT

\* C12: after the conversion of the date-coded text columns, each cell that
\* held 00000000 is a null date, each cell that held a valid YYYYMMDD text is
\* that date, each cell that held any other text is null, and the conversion
\* has not raised.
C12_NullDateSentinel ==
    DatesConverted =>
        \A i \in 1..Len(imported.cols) :
            imported.cols[i].name \in SeqToSet(imported.fieldName) =>
                /\ imported.cols[i].dtype = "datetime64[ns]"
                /\ \A j \in 1..Len(imported.csv.rows) :
                        imported.cols[i].vals[j]
                            = DateOfText(imported.csv.rows[j][i])

\* a date column read from the texts 00000000 and 20240102
C12_Witness ==
    /\ DatesConverted
    /\ Len(imported.cols) = 1
    /\ imported.cols[1].name \in SeqToSet(imported.fieldName)
    /\ \E j \in 1..Len(imported.csv.rows) :
            /\ imported.csv.rows[j][1] = <<"str", Zeros(8)>>
            /\ imported.cols[1].vals[j] = NaT
    /\ \E j \in 1..Len(imported.csv.rows) :
            imported.cols[1].vals[j] = <<"dt", 2, 0, 0, 0, 0>>

\* the columns of the imported dataframe whose store field is of a character
\* type that is not a date type
CharacterColumns ==
    {i \in 1..Len(imported.cols) :
        store["acc.imd"].fields[i].type \in CHARS \ fieldType}

FieldNamed(name) ==
    template.fields[CHOOSE i \in 1..Len(template.fields) :
                        template.fields[i].name = name]

IsNumericField(f, decimals) ==
    <<f.a3, f.a4, f.a5, f.decimals, f.mask>> = <<2, 0, 1, decimals, "">>

BooleanColumns == {i \in 1..Len(passed) : passed[i].dtype = "bool"}

\* C14: the export cleaning turns every Boolean column into the integers 1
\* for True and 0 for False, row by row, and the template gives the column a
\* Numeric field without decimal places.
C14_BooleanExport ==
    \A i \in BooleanColumns :
        /\ cleaned.state = "returned" =>
               /\ passed[i].name \in ColNames(cleaned.cols)
               /\ GetCol(cleaned.cols, passed[i].name).vals
                      = [j \in 1..Len(passed[i].vals) |->
                            IF passed[i].vals[j] = <<"bool", TRUE>>
                            THEN <<"int", 1>> ELSE <<"int", 0>>]
        /\ template.state = "built" =>
               IsNumericField(FieldNamed(passed[i].name), 0)

\* the column [True, False] was cleaned to [1, 0] and has its Numeric field
C14_Witness ==
    /\ template.state = "built"
    /\ Len(passed) = 1
    /\ passed[1].dtype = "bool"
    /\ passed[1].vals = <<<<"bool", TRUE>>, <<"bool", FALSE>>>>
    /\ cleaned.cols[1].vals = <<<<"int", 1>>, <<"int", 0>>>>
    /\ IsNumericField(template.fields[1], 0)

\* the text is two digits, a colon, two digits, a colon, two digits
IsHHMMSS(t) ==
    /\ Len(t) = 8
    /\ \A i \in {1, 2, 4, 5, 7, 8} : IsDigit(t[i])
    /\ t[3] = ":" /\ t[6] = ":"
    /\ 10 * DigitVal(t[4]) + DigitVal(t[5]) \in 0..59
    /\ 10 * DigitVal(t[7]) + DigitVal(t[8]) \in 0..59

DurationColumns == {i \in 1..Len(passed) : passed[i].dtype = "timedelta64[ns]"}

\* C15: the export cleaning renders every duration as HH:MM:SS text of two
\* digits each which pd.to_timedelta reads back as the same whole seconds,
\* and renders a null duration as null.
C15_DurationRendering ==
    cleaned.state = "returned" =>
        \A i \in DurationColumns :
            \A j \in 1..Len(passed[i].vals) :
                LET v == passed[i].vals[j]
                    out == GetCol(cleaned.cols, passed[i].name).vals[j]
                IN  IF IsNull(v) THEN IsNull(out)
                    ELSE /\ out[1] = "str"
                         /\ IsHHMMSS(out[2])
                         /\ ParseTimedelta(out) = <<"td", v[2], 0>>

\* C16: in the template every column of an integer type of any width that is
\* in neither the date-field nor the time-field list has a Numeric field
\* without decimal places.
C16_IntegerRule ==
    template.state = "built" =>
        \A i \in 1..Len(cleaned.cols) :
            (/\ cleaned.cols[i].dtype \in IntegerDtypes
             /\ cleaned.cols[i].name
                    \notin SeqToSet(cleaned.dateFields)
                               \cup SeqToSet(cleaned.timeFields))
                => IsNumericField(template.fields[i], 0)

\* the rule of the claimed order that a column of the cleaned table matches
\* first
FirstMatchingRule(c) ==
    IF c.name \in SeqToSet(cleaned.dateFields) THEN "date"
    ELSE IF c.name \in SeqToSet(cleaned.timeFields) THEN "time"
    ELSE IF c.dtype = "category" THEN "categorical"
    ELSE IF c.dtype \in IntegerDtypes THEN "integer"
    ELSE IF c.dtype \in {"float16", "float32", "float64"} THEN "float"
    ELSE "character"

\* the field definition is the one of the rule
FieldOfRule(f, rule) ==
    CASE rule = "date" -> <<f.a3, f.a4, f.a5, f.decimals, f.mask>>
                              = <<5, 66, 8, 0, "dateMask">>
      [] rule = "time" -> <<f.a3, f.a4, f.a5, f.decimals, f.mask>>
                              = <<117, 74, 11, 0, "timeMask">>
      [] rule = "integer" -> IsNumericField(f, 0)
      [] rule = "float" -> \E d \in 0..6 : IsNumericField(f, d)
      [] OTHER -> <<f.a3, f.a4, f.a5, f.decimals, f.mask>> = <<1, 0, 1, 0, "">>

\* C17: the template of a cleaned table is built without raising and holds
\* one field definition per column, in column order, each the definition of
\* the first rule the column matches in the order date-field list,
\* time-field list, categorical, Integer, Float, Character.
C17_TemplatePrecedence ==
    (cleaned.state = "returned" /\ template.state # "notrun") =>
        /\ template.state = "built"
        /\ Len(template.fields) = Len(cleaned.cols)
        /\ \A i \in 1..Len(cleaned.cols) :
               /\ template.fields[i].name = cleaned.cols[i].name
               /\ FieldOfRule(template.fields[i],
                              FirstMatchingRule(cleaned.cols[i]))

\* the type the claim gives a field of the store, "" for a Time-like field
ClaimedType(f) ==
    CASE f.type \in {WI_VIRT_NUM, WI_EDIT_NUM, WI_NUM_FIELD} ->
            IF f.decimals = 0 THEN "int64" ELSE "float64"
      [] f.type = WI_BOOL -> "bool"
      [] f.type = WI_MULTISTATE -> "int8"
      [] f.type \in {WI_VIRT_CHAR, WI_EDIT_CHAR, WI_CHAR_FIELD,
                     WI_VIRT_DATE, WI_EDIT_DATE, WI_DATE_FIELD} -> "object"
      [] OTHER -> ""

Occurrences(s, x) == Cardinality({i \in 1..Len(s) : s[i] = x})

MapperReturned == imported.state \notin {"notrun", "exported"}

\* C18: what _map_database_col_types returned gives each Numeric field int64
\* when it has no decimals and float64 otherwise, each Boolean field bool,
\* each Multistate field int8, each Character or date field object, and
\* leaves each Time field out of the mapping and has it once in the time
\* list.
C18_TypeMapper ==
    MapperReturned =>
        \A i \in 1..Len(store["acc.imd"].fields) :
            LET f == store["acc.imd"].fields[i] IN
            /\ MappingType(imported.columnPairs, f.name) = ClaimedType(f)
            /\ Occurrences(imported.times, f.name)
                   = IF f.type \in {WI_VIRT_TIME, WI_EDIT_TIME, WI_TIME_FIELD}
                     THEN 1 ELSE 0

\* the mapper returned for a database of a Numeric field with decimals and a
\* Time field
C18_Witness ==
    /\ MapperReturned
    /\ Len(store["acc.imd"].fields) = 2
    /\ store["acc.imd"].fields[1].type = WI_NUM_FIELD
    /\ store["acc.imd"].fields[1].decimals = 2
    /\ store["acc.imd"].fields[2].type = WI_TIME_FIELD
    /\ imported.columnPairs = <<<<ColName(1), "float64">>>>
    /\ imported.times = <<ColName(2)>>

\* read_csv without a header argument takes the first line as the header
ReadCsvFirstRowIsNames == TRUE

\* C19: the header flag given to the consumer of a text file matches the
\* file: the store imports py2idea's header-free file as having no header,
\* so every row of the file becomes a record, and idea2py reads the file the
\* store wrote with a header as having one.
C19_HeaderPresence ==
    /\ (call.op = "py2idea" /\ call.ret = "db") =>
           /\ ~call.csv.header
           /\ ImportFirstRowIsNames = call.csv.header
           /\ Len(store[call.target].rows) = Len(call.csv.rows)
    /\ (call.op = "idea2py" /\ call.csv.written) =>
           /\ call.csv.header
           /\ ReadCsvFirstRowIsNames = call.csv.header

\* the positions of import_to_idea from line 650 to the finally clause
ImportRunning == {"update1", "update2", "asking", "converting", "reporting"}

ImportsInFlight == {i \in 1..Len(gui.stack) : gui.stack[i] \in ImportRunning}

\* C20: whatever the user clicks, whatever the download thread does and
\* whatever the event loops inside import_to_idea dispatch, at most one
\* import_to_idea is between disabling the button and its finally clause,
\* and while one is the import button is disabled.
C20_SerializedImport ==
    /\ Cardinality(ImportsInFlight) <= 1
    /\ ImportsInFlight # {} => gui.button = "disabled"

\* an import is at the question of save_to_idea, whose event loop has
\* dispatched a second click that the disabled button ignored, after the
\* download thread has enabled the button
C20_Witness ==
    /\ Top(gui) = "asking"
    /\ gui.thread \in {"enabled", "ended"}
    /\ gui.ignored >= 1
    /\ gui.button = "disabled"

\* the positions of import_to_idea inside save_to_idea: the client is
\* obtained, read_csv and py2idea run
ConversionPositions == {"asking", "converting"}

\* C21: no conversion started by the GUI runs on the thread of the event
\* loop: the stack of that thread never holds an import_to_idea call that is
\* inside save_to_idea.
C21_ConversionOffUiThread ==
    \A i \in 1..Len(gui.stack) : gui.stack[i] \notin ConversionPositions

ConvertedDtypes == {"datetime64[ns]", "bool", "timedelta64[ns]"}

\* C22: the table the export cleaning returns has the rows of the table it
\* was given, none added or removed, and every column that is not datetime,
\* Boolean or duration typed is in it with its type and its values in the
\* same rows.
C22_CleaningFrame ==
    cleaned.state = "returned" =>
        /\ \A i \in 1..Len(cleaned.cols) :
               Len(cleaned.cols[i].vals) = NRows(passed)
        /\ \A i \in 1..Len(passed) :
               passed[i].dtype \notin ConvertedDtypes =>
                   /\ passed[i].name \in ColNames(cleaned.cols)
                   /\ GetCol(cleaned.cols, passed[i].name) = passed[i]

\* a table of one int8 column of two rows was cleaned: the column is
\* recorded as multistate and returned as it was
C22_Witness ==
    /\ cleaned.state = "returned"
    /\ Len(passed) = 1
    /\ passed[1].dtype = "int8"
    /\ Len(passed[1].vals) = 2
    /\ cleaned.map = {<<passed[1].name, "multistate">>}
    /\ cleaned.cols = passed

\* C23: every idea_client() call that returns normally returns a connected
\* client, also after an earlier call failed to connect; a call either
\* leaves a connection established or raises the connection error.
C23_ClientConnected ==
    call.op = "idea_client" =>
        \/ call.ret = "raised" /\ call.failedAt = "connect"
        \/ call.ret = "client" /\ sclient = "client"

\* C24: the connection to the store is attempted at most once, by the call
\* that creates the singleton, and every call that returns a client returns
\* the client the singleton holds, which never changes once set.
C24_SingleConnection ==
    [][/\ (call' # call /\ "connect" \in call'.trace) => (~instance /\ instance')
       /\ (call'.op = "idea_client" /\ call'.ret = "client") => sclient' = "client"
       /\ instance => instance'
       /\ sclient = "client" => sclient' = "client"]_vars

\* a second idea_client() call returned the client of the singleton without
\* a connection attempt
C24_Witness ==
    /\ call.op = "idea_client"
    /\ instance
    /\ call.ret = "client"
    /\ "connect" \notin call.trace

\* C25: success is reported only for an import that created the database:
\* save_to_idea prints "Import successful." and the GUI shows its success
\* message only when py2idea returned the database, and a failed import is
\* reported as a failure naming the CSV file.
C25_SuccessReporting ==
    /\ gui.printed = "Import successful." => gui.result = "db"
    /\ gui.shown = "success" => gui.result = "db"
    /\ gui.result \in {"None", "raised", "notcalled"} =>
           gui.printed = "Error saving to IDEA; CSV file is saved to"

\* C26: a py2idea call that finds its target database existing and was not
\* asked for a unique file returns None without a temporary directory, a
\* text file or a store import; a call asked for a unique file imports to
\* the name the store supplied; no py2idea call changes a database that
\* existed before it.
C26_ExistingTarget ==
    [][(call'.op = "py2idea" /\ call' # call) =>
          /\ call'.failedAt = "exists" =>
                 /\ store[call'.target].exists
                 /\ call'.ret = "None"
                 /\ ~tempDir'.created
                 /\ ~call'.csv.written
                 /\ "import" \notin call'.trace
                 /\ store' = store
          /\ "uniquename" \in call'.trace =>
                 /\ store["acc.imd"].exists
                 /\ call'.target # "acc.imd"
                 /\ ~store[call'.target].exists
          /\ \A p \in DbPaths : store[p].exists => store'[p] = store[p]]_vars

\* py2idea was called for a database that exists, without createUniqueFile,
\* and returned None before making its temporary directory
C26_Witness ==
    /\ call.op = "py2idea"
    /\ call.failedAt = "exists"
    /\ call.ret = "None"
    /\ store[call.target].exists
    /\ ~tempDir.created

\* C27: a call whose database name has no extension and that cannot read the
\* store's extension setting returns None; it does not raise.
C27_ExtensionFailureGivesNone ==
    (call.op \in {"py2idea", "idea2py"} /\ call.failedAt = "ext") =>
        call.ret = "None"

\* C28: after py2idea has returned, the table the caller passed has the
\* columns, the column types and the cell values it had before the call.
C28_CallerTableUntouched ==
    call.op = "py2idea" => df = passed

\* the steps the claim names as failing
NamedFailures == {"download", "extract", "parse", "combine"}

\* C29: when process_zip_file has returned, the downloaded zip file and the
\* extraction directory are gone, the function has raised nothing, and it
\* has returned None if an exception occurred in the download, the
\* extraction, the parsing or the combination.
C29_PipelineCleanup ==
    pipeline.pc = "returned" =>
        /\ ~pipeline.zip
        /\ ~pipeline.extracted
        /\ pipeline.ret \in {"None", "path"}
        /\ pipeline.raisedIn \cap NamedFailures # {} => pipeline.ret = "None"

\* C30: when process_zip_file has returned a path, the combined file exists
\* at it and holds only rows of workbooks that were parsed; a workbook whose
\* parsing failed has no row in it.
C30_OnlyParsedRows ==
    (pipeline.pc = "returned" /\ pipeline.ret = "path") =>
        /\ pipeline.combined.exists
        /\ \A k \in 1..Len(pipeline.combined.rows) :
               LET row == pipeline.combined.rows[k]
               IN  row[2] = "data" /\ pipeline.books[row[1]].parses

====
